---- MODULE Spec2Model ----
(***************************************************************************)
(* Key-based matcher and validation pipeline of the accounting agent.      *)
(*                                                                         *)
(* Python objects are modelled with their identity: a record (dict) is an  *)
(* object id, and `records` maps each id to the dict's contents; a list is *)
(* a sequence of object ids held in `lists` under the name of the list     *)
(* object.  A dict's contents is a function whose domain is the set of     *)
(* field names present in it.                                              *)
(***************************************************************************)
EXTENDS Integers, Sequences, FiniteSets, TLC

VARIABLES
    pc,                \* position: before the matcher call, after it, workflow done
    records,           \* heap of dict objects: object id -> contents
    lists,             \* heap of list objects: list name -> sequence of object ids
    billing_index,     \* dict: key value -> target object id
    matched_pairs,     \* list of pair dicts {"deposit": id, "billing": id}
    unmatched_deposit, \* list of source object ids
    validation_rules,  \* workflow argument: None or a list of rule dicts
    tolerance_pct,     \* workflow argument, in hundredths of a percent
    p,                 \* number of matched pairs the workflow's loop has consumed
    reconciled,        \* list of row object ids
    unreconciled,      \* list of row object ids
    report_rows,       \* list of row object ids
    files,             \* path -> the row contents csv_writer wrote there
    workflow_result,   \* the mapping the workflow returned
    deposit_data0,     \* the source list as passed in
    billing_data0,     \* the target list as passed in
    records0,          \* the records' contents as passed in
    source_key,        \* argument: the key field name of the source records
    target_key,        \* argument: the key field name of the target records
    pipeline,          \* which caller runs: generic_matching_workflow or the graph nodes
    exception,         \* the exception that left the pipeline, or "none"
    call,              \* a call of a validator on its own: function, arguments, outcome
    state,             \* the AppState dict of a graph run: key -> value
    node,              \* position in the top-level graph of build_graph
    agent,             \* the specialist agent whose function is running, or "none"
    sub,               \* position in the specialist agent's graph
    dispatched,        \* the agents the top-level routing dispatched to, in order
    workflow_calls,    \* the file references of each call of generic_matching_workflow
    llm,               \* environment: ChatOpenAI and OPENAI_API_KEY are available
    steps              \* supersteps taken by the graph that is running

matcherVars == <<billing_index, matched_pairs, unmatched_deposit>>
workflowVars == <<p, reconciled, unreconciled, report_rows, files, workflow_result>>
argVars == <<validation_rules, tolerance_pct, deposit_data0, billing_data0, records0,
             source_key, target_key, pipeline>>
callVars == <<exception, call>>
graphVars == <<state, node, agent, sub, dispatched, workflow_calls, llm, steps>>

vars == <<pc, records, lists, matcherVars, workflowVars, argVars, callVars, graphVars>>

----------------------------------------------------------------------------
(* Bounds of the model. *)

MaxSource == 3
MaxTarget == 3

----------------------------------------------------------------------------
(* Values a field can hold: None, a string, a number. *)

(* Num(n) is the number n / 100; Ref(o) is a reference to the dict o. *)
None == [t |-> "none", v |-> 0]
Str(s) == [t |-> "str", v |-> s]
Num(n) == [t |-> "num", v |-> n]
PyInt(n) == [t |-> "int", v |-> n]
Ref(o) == [t |-> "ref", v |-> o]

(* Object ids: the i-th source record, the j-th target record. *)
SrcId(n) == <<"src", n>>
TgtId(n) == <<"tgt", n>>
RowId(n) == <<"row", n>>
NoRow == <<"None", 0>>
(* the validation_rules argument: None, or a list of rule dicts *)
NoRules == [given |-> FALSE, rules |-> <<>>]
RulesGiven(l) == [given |-> TRUE, rules |-> l]

(* the matcher is called with deposit_key = source_key and billing_key =
   target_key *)
deposit_key == source_key
billing_key == target_key

(* no validator call is in progress *)
NoCall == [fn |-> "none"]

KeyValues == {None, Str("K1"), Str("K2")}

(* Source rows: the key field absent, null or set. *)
SourceRows ==
    {[amount |-> Num(100)]}
    \cup {[receipt_no |-> k, amount |-> Num(100)] : k \in KeyValues}

(* Target rows: the key field absent, null or set; two amounts, so that two
   rows with the same key can be equal or different dicts. *)
TargetRows ==
    {[amount |-> Num(100)],
     [invoice_number |-> None, amount |-> Num(100)],
     [invoice_number |-> Str("K1"), amount |-> Num(100)],
     [invoice_number |-> Str("K1"), amount |-> Num(101)],
     [invoice_number |-> Str("K2"), amount |-> Num(100)]}

SeqsUpTo(S, n) == UNION {[1..m -> S] : m \in 0..n}

----------------------------------------------------------------------------
(* dict and list primitives of Python *)

(* the elements of a list *)
Elems(lst) == {lst[n] : n \in 1..Len(lst)}

(* dict.get(f): the value, or None when the field is absent *)
Get(row, f) == IF f \in DOMAIN row THEN row[f] ELSE None

(* d[k] = v *)
PutFirstWins(d, k, v) ==
    [x \in DOMAIN d \cup {k} |-> IF x \in DOMAIN d THEN d[x] ELSE v]
Put(d, k, v) == [x \in DOMAIN d \cup {k} |-> IF x = k THEN v ELSE d[x]]

(* a == b on two dict objects: the same object, or equal contents *)
RowEq(a, b) == a = b \/ records[a] = records[b]

(* x in lst *)
In(x, lst) == \E j \in 1..Len(lst) : RowEq(lst[j], x)

(* lst.extend(more) *)
ExtendFront(lst, more) == more \o lst
Extend(lst, more) == lst \o more

(* lst.remove(x): drops the first element equal to x *)
RemoveAllEqual(lst, x) == SelectSeq(lst, LAMBDA y : ~RowEq(y, x))
Remove(lst, x) ==
    LET j == CHOOSE j \in 1..Len(lst) :
                 /\ RowEq(lst[j], x)
                 /\ \A h \in 1..(j - 1) : ~RowEq(lst[h], x)
    IN  SubSeq(lst, 1, j - 1) \o SubSeq(lst, j + 1, Len(lst))

----------------------------------------------------------------------------
(* key_based_matcher *)

(* the dict comprehension: rows in list order, rows whose key is None
   skipped, a later row with the same key overwriting the earlier entry *)
RECURSIVE IndexRowsNoSkip(_, _, _)
IndexRowsNoSkip(data, n, idx) ==
    IF n > Len(data) THEN idx
    ELSE IndexRowsNoSkip(data, n + 1,
            Put(idx, Get(records[data[n]], billing_key), data[n]))
RECURSIVE IndexRowsFirst(_, _, _)
IndexRowsFirst(data, n, idx) ==
    IF n > Len(data) THEN idx
    ELSE LET k == Get(records[data[n]], billing_key)
         IN  IndexRowsFirst(data, n + 1,
                 IF k # None THEN PutFirstWins(idx, k, data[n]) ELSE idx)
RECURSIVE IndexRows(_, _, _)
IndexRows(data, n, idx) ==
    IF n > Len(data) THEN idx
    ELSE LET k == Get(records[data[n]], billing_key)
         IN  IndexRows(data, n + 1,
                 IF k # None THEN Put(idx, k, data[n]) ELSE idx)

(* billing_index.get(k) *)
Lookup(idx, k) == IF k \in DOMAIN idx THEN idx[k] ELSE NoRow

(* the list object the name remaining_billing is bound to: a copy *)
remaining_billing_alias == "billing_data"
remaining_billing_obj == "remaining_billing"

deposit_data == lists["deposit_data"]
billing_data == lists["billing_data"]
remaining_billing == lists[remaining_billing_obj]

(* the three updates of one loop iteration *)
MatchedAfter(mp, dep_row, bill_row) ==
    IF bill_row # NoRow
    THEN Append(mp, [deposit |-> Ref(dep_row), billing |-> Ref(bill_row)])
    ELSE mp

UnmatchedAfterFront(um, dep_row, bill_row) ==
    IF bill_row # NoRow THEN um ELSE <<dep_row>> \o um
UnmatchedAfterKeyOnly(um, dep_row, bill_row) ==
    IF Get(records[dep_row], deposit_key) = None THEN Append(um, dep_row) ELSE um
UnmatchedAfter(um, dep_row, bill_row) ==
    IF bill_row # NoRow THEN um ELSE Append(um, dep_row)

RemainingAfterAll(rem, bill_row) ==
    IF bill_row # NoRow /\ In(bill_row, rem)
    THEN RemoveAllEqual(rem, bill_row)
    ELSE rem
RemainingAfter(rem, bill_row) ==
    IF bill_row # NoRow /\ In(bill_row, rem) THEN Remove(rem, bill_row) ELSE rem

(* entry: the two lists of dicts passed in, nothing computed yet *)
Entry(src, tgt) ==
        /\ records = [o \in {SrcId(n) : n \in 1..Len(src)}
                            \cup {TgtId(n) : n \in 1..Len(tgt)} |->
                        IF o[1] = "src" THEN src[o[2]] ELSE tgt[o[2]]]
        /\ lists = [deposit_data |-> [n \in 1..Len(src) |-> SrcId(n)],
                    billing_data |-> [n \in 1..Len(tgt) |-> TgtId(n)],
                    remaining_billing |-> <<>>]
        /\ pc = "start"
        /\ billing_index = <<>>
        /\ matched_pairs = <<>>
        /\ unmatched_deposit = <<>>
        /\ p = 0
        /\ reconciled = <<>>
        /\ unreconciled = <<>>
        /\ report_rows = <<>>
        /\ files = <<>>
        /\ workflow_result = <<>>
        /\ deposit_data0 = lists["deposit_data"]
        /\ billing_data0 = lists["billing_data"]
        /\ records0 = records
        /\ exception = "none"

(* no graph is running: the function is called on its own *)
NoGraph ==
    /\ state = <<>>
    /\ node = "none"
    /\ agent = "none"
    /\ sub = "none"
    /\ dispatched = <<>>
    /\ workflow_calls = <<>>
    /\ llm = FALSE
    /\ steps = 0

(* a call of key_based_matcher on its own *)
SourceLists == SeqsUpTo(SourceRows, MaxSource)
TargetLists == SeqsUpTo(TargetRows, MaxTarget)

Init ==
    \E src \in SourceLists, tgt \in TargetLists :
        /\ Entry(src, tgt)
        /\ validation_rules = NoRules
        /\ tolerance_pct = 0
        /\ source_key = "receipt_no"
        /\ target_key = "invoice_number"
        /\ pipeline = "workflow"
        /\ call = NoCall
        /\ NoGraph

(* lines 38-46: the loop over deposit_data from its n-th row on *)
RECURSIVE MatchLoop(_, _, _, _, _)
MatchLoop(idx, n, mp, um, rem) ==
    IF n > Len(deposit_data)
    THEN [matched_pairs |-> mp, unmatched_deposit |-> um, remaining_billing |-> rem]
    ELSE LET dep_row == deposit_data[n]
             k == Get(records[dep_row], deposit_key)
             bill_row == Lookup(idx, k)
         IN  MatchLoop(idx, n + 1,
                       MatchedAfter(mp, dep_row, bill_row),
                       UnmatchedAfter(um, dep_row, bill_row),
                       RemainingAfter(rem, bill_row))

(* lines 48-52: the result dict, holding the three list objects *)
match_results ==
    [matched_pairs |-> matched_pairs,
     unmatched_deposit |-> unmatched_deposit,
     unmatched_billing |-> remaining_billing]

(* a call of key_based_matcher, lines 28-52: the index, the copy of the
   target list, the loop, the return *)
MatcherCall ==
    LET idx == IndexRows(billing_data, 1, <<>>)
        out == MatchLoop(idx, 1, <<>>, <<>>, billing_data)
    IN  /\ billing_index' = idx
        /\ matched_pairs' = out.matched_pairs
        /\ unmatched_deposit' = out.unmatched_deposit
        /\ lists' = [lists EXCEPT ![remaining_billing_obj] = out.remaining_billing]

key_based_matcher ==
    /\ pc = "start"
    /\ pipeline = "workflow"
    /\ MatcherCall
    /\ pc' = "returned"
    /\ UNCHANGED <<records, workflowVars, argVars, graphVars, callVars>>

Next == key_based_matcher

Spec == Init /\ [][Next]_vars

----------------------------------------------------------------------------
(* generic_matching_workflow *)

MaxWorkflowRows == 2

(* the arguments numeric_field and target_numeric_field: the defaults
   (line 38, lines 75-76), or the fields the inventory agent passes *)
numeric_field ==
    IF agent = "inventory_matching_agent" THEN "system_quantity" ELSE "amount"
target_numeric_field ==
    IF agent = "inventory_matching_agent" THEN "actual_quantity" ELSE numeric_field

reconciled_path == "output/reconciled.csv"
unreconciled_path == "output/unreconciled.csv"
report_path == "output/validation_report.csv"

(* d.get(f, default) *)
GetDefault(row, f, d) == IF f \in DOMAIN row THEN row[f] ELSE d

(* {**a, **b}: the fields of both, b's value on a shared field *)
MergeFirstWins(a, b) ==
    [f \in DOMAIN a \cup DOMAIN b |-> IF f \in DOMAIN a THEN a[f] ELSE b[f]]
Merge(a, b) ==
    [f \in DOMAIN a \cup DOMAIN b |-> IF f \in DOMAIN b THEN b[f] ELSE a[f]]

Abs(x) == IF x < 0 THEN -x ELSE x

(* diff = v1 - v2 *)
DifferenceReversed(v1, v2) == v2 - v1
Difference(v1, v2) == v1 - v2

(* float(v): numbers and numeric text convert; None raises TypeError, other
   text ValueError, a dict TypeError *)
FloatText == ("100" :> 10000) @@ ("101" :> 10100)
FloatError(v) ==
    CASE v.t \in {"num", "int"} -> "none"
      [] v.t = "str" -> IF v.v \in DOMAIN FloatText THEN "none" ELSE "ValueError"
      [] OTHER -> "TypeError"
CanFloat(v) == FloatError(v) = "none"
Float(v) ==
    CASE v.t = "num" -> v.v
      [] v.t = "int" -> 100 * v.v
      [] OTHER -> FloatText[v.v]

(* float(a) and then float(b) in one try block: the first error *)
ConvertError(a, b) == IF FloatError(a) # "none" THEN FloatError(a) ELSE FloatError(b)

(* the outcome of a call: the value returned, or the exception raised *)
Returns(x) == [raised |-> "none", value |-> x]
Raises(e) == [raised |-> e, value |-> FALSE]

(* str(v): the text of a float with up to two decimals *)
NumText(c) ==
    LET a == Abs(c)
        f == a % 100
    IN  (IF c < 0 THEN "-" ELSE "") \o ToString(a \div 100) \o "."
          \o (IF f % 10 = 0 THEN ToString(f \div 10)
              ELSE IF f < 10 THEN "0" \o ToString(f) ELSE ToString(f))
StrOf(v) ==
    CASE v.t = "none" -> "None"
      [] v.t = "str" -> v.v
      [] v.t = "num" -> NumText(v.v)
      [] v.t = "int" -> (IF v.v < 0 THEN "-" ELSE "") \o ToString(Abs(v.v))
      [] OTHER -> "{...}"

(* Double-precision arithmetic of the threshold.  The amounts and the
   tolerances of the model are whole numbers, which a double holds exactly,
   and so is their difference; tolerance / 100.0 and its product with
   abs(value1_f) are rounded to 53 significant bits, to nearest. *)
RECURSIVE Pow2(_)
Pow2(n) == IF n = 0 THEN 1 ELSE 2 * Pow2(n - 1)

(* num/den scaled by 2^(-e) into [1, 2) *)
RECURSIVE Normalise(_, _, _)
Normalise(num, den, e) ==
    IF num >= 2 * den THEN Normalise(num, 2 * den, e + 1)
    ELSE IF num < den THEN Normalise(2 * num, den, e - 1)
    ELSE [e |-> e, num |-> num, den |-> den]

(* n more bits of the quotient by long division: the remainder left and the
   last bit produced *)
RECURSIVE FractionBits(_, _, _, _)
FractionBits(r, den, n, last) ==
    IF n = 0 THEN [r |-> r, last |-> last]
    ELSE IF 2 * r >= den THEN FractionBits(2 * r - den, den, n - 1, 1)
    ELSE FractionBits(2 * r, den, n - 1, 0)

(* the fraction bits of a double *)
MantissaBits == 52

(* T / 100.0 for a whole T > 0: the double is T/100 + (err/den) * 2^(e - 52),
   rounded to nearest, ties to even *)
RoundingError(T) ==
    LET nz == Normalise(T, 100, 0)
        fb == FractionBits(nz.num - nz.den, nz.den, MantissaBits, 1)
        up == 2 * fb.r > nz.den \/ (2 * fb.r = nz.den /\ fb.last = 1)
    IN  [e |-> nz.e, den |-> nz.den, err |-> IF up THEN nz.den - fb.r ELSE -fb.r]

(* d <= abs(value1_f) * (tolerance / 100.0) in doubles, for whole a, T > 0
   with a * T / 100 = d exactly: the product a * (T/100 + error) rounds to d
   unless it lies more than half a spacing below d *)
ThresholdReaches(a, T) ==
    LET d == (a * T) \div 100
        re == RoundingError(T)
        nd == Normalise(d, 1, 0)
        eD == IF nd.num = nd.den THEN nd.e - 1 ELSE nd.e
        lhs == 2 * a * (-re.err) * (IF re.e >= 0 THEN Pow2(re.e) ELSE 1)
                 * (IF eD < 0 THEN Pow2(-eD) ELSE 1)
        rhs == re.den * (IF re.e < 0 THEN Pow2(-re.e) ELSE 1)
                 * (IF eD >= 0 THEN Pow2(eD) ELSE 1)
    IN  re.err >= 0 \/ lhs <= rhs

(* lines 31-33: abs(value1_f - value2_f) <= abs(value1_f) * (tolerance / 100.0);
   a and b in hundredths, tolerance in hundredths of a percent.  Off the
   exact boundary the rounding (below 1e-13) cannot change the comparison;
   on it the rounded product decides (whole amounts and whole percents, the
   only values the model draws). *)
WithinTolerance(a, b, tolerance) ==
    LET d == Abs(a - b)
    IN  IF d * 10000 < Abs(a) * tolerance THEN TRUE
        ELSE IF d * 10000 > Abs(a) * tolerance THEN FALSE
        ELSE IF d = 0 THEN TRUE
        ELSE IF Abs(a) % 100 = 0 /\ tolerance % 100 = 0
        THEN ThresholdReaches(Abs(a) \div 100, tolerance \div 100)
        ELSE TRUE

(* line 27: the exceptions the validator's try block catches *)
validator_except_value_only == {"ValueError"}
validator_except == {"ValueError", "TypeError"}

(* numeric_field_validator, lines 24-33: False when a value does not
   convert, else the comparison *)
numeric_field_validator(value1, value2, tolerance) ==
    LET err == ConvertError(value1, value2)
    IN  IF err = "none"
        THEN Returns(WithinTolerance(Float(value1), Float(value2), tolerance))
        ELSE IF err \in validator_except THEN Returns(FALSE)
        ELSE Raises(err)

(* difference_validator: abs(amount_deposit - amount_billing) <= tolerance,
   on the values as they are (no conversion); tolerance defaults to 1e-2 *)
default_tolerance == 1
difference_validator_signed(amount_deposit, amount_billing, tolerance) ==
    IF amount_deposit.t # "num" \/ amount_billing.t # "num" THEN Raises("TypeError")
    ELSE Returns(amount_deposit.v - amount_billing.v <= tolerance)
difference_validator(amount_deposit, amount_billing, tolerance) ==
    IF amount_deposit.t # "num" \/ amount_billing.t # "num" THEN Raises("TypeError")
    ELSE Returns(Abs(amount_deposit.v - amount_billing.v) <= tolerance)

string_field_validator(value1, value2) == StrOf(value1) = StrOf(value2)

(* a new dict object *)
RowCount == Cardinality({o \in DOMAIN records : o[1] = "row"})
NewDict(n) == RowId(RowCount + n)

Alloc(heap, o, contents) ==
    [x \in DOMAIN heap \cup {o} |-> IF x = o THEN contents ELSE heap[x]]

Contents(lst) == [n \in 1..Len(lst) |-> records[lst[n]]]

(* line 110: the exceptions the workflow's try block catches *)
workflow_except == {"ValueError", "TypeError"}

(* line 96: the rule-based mode is taken unless validation_rules is None *)
UseRulesIfAny == validation_rules.given /\ Len(validation_rules.rules) > 0
UseRules == validation_rules.given

(* Mode A, lines 103-119: one matched pair *)
ModeAPair ==
    /\ pc = "returned"
    /\ pipeline = "workflow"
    /\ ~UseRules
    /\ p < Len(matched_pairs)
    /\ LET pair == matched_pairs[p + 1]
           src == pair.deposit.v
           tgt == pair.billing.v
           a == GetDefault(records[src], numeric_field, Num(0))
           b == GetDefault(records[tgt], target_numeric_field, Num(0))
           err == ConvertError(a, b)
           row == NewDict(1)
           merged == Merge(records[src], records[tgt])
       IN  IF err # "none" /\ err \notin workflow_except
           THEN /\ pc' = "raised"
                /\ exception' = err
                /\ UNCHANGED <<records, matched_pairs, reconciled, unreconciled, p>>
           ELSE /\ IF err # "none"
                   THEN LET marked == Put(pair, "validation_error",
                                          Str("invalid_numeric"))
                        IN  /\ matched_pairs' = [matched_pairs EXCEPT ![p + 1] = marked]
                            /\ records' = Alloc(records, row, Merge(merged, marked))
                            /\ unreconciled' = Append(unreconciled, row)
                            /\ UNCHANGED reconciled
                   ELSE IF numeric_field_validator(Num(Float(a)), Num(Float(b)),
                                                   tolerance_pct).value
                   THEN /\ records' = Alloc(records, row, merged)
                        /\ reconciled' = Append(reconciled, row)
                        /\ UNCHANGED <<matched_pairs, unreconciled>>
                   ELSE /\ records' = Alloc(records, row,
                               Put(merged, "difference", Num(Difference(Float(a), Float(b)))))
                        /\ unreconciled' = Append(unreconciled, row)
                        /\ UNCHANGED <<matched_pairs, reconciled>>
                /\ p' = p + 1
                /\ UNCHANGED <<pc, exception>>
    /\ UNCHANGED <<lists, billing_index, unmatched_deposit,
                   report_rows, files, workflow_result, argVars, graphVars, call>>

(* Mode A, lines 122-138: the unmatched rows, the two files, the result *)
ModeAFinishSourceOnly ==
    /\ pc = "returned"
    /\ pipeline = "workflow"
    /\ ~UseRules
    /\ p >= Len(matched_pairs)
    /\ unreconciled' = Extend(unreconciled, match_results.unmatched_deposit)
    /\ files' = (reconciled_path :> Contents(reconciled))
                  @@ (unreconciled_path :> Contents(unreconciled'))
    /\ workflow_result' = [reconciled |-> reconciled_path,
                           unreconciled |-> unreconciled_path]
    /\ pc' = "done"
    /\ UNCHANGED <<records, lists, matcherVars, p, reconciled, report_rows,
                   argVars, graphVars, callVars>>
ModeAFinish ==
    /\ pc = "returned"
    /\ pipeline = "workflow"
    /\ ~UseRules
    /\ p >= Len(matched_pairs)
    /\ unreconciled' = Extend(Extend(unreconciled, match_results.unmatched_deposit),
                              match_results.unmatched_billing)
    /\ files' = (reconciled_path :> Contents(reconciled))
                  @@ (unreconciled_path :> Contents(unreconciled'))
    /\ workflow_result' = [reconciled |-> reconciled_path,
                           unreconciled |-> unreconciled_path]
    /\ pc' = "done"
    /\ UNCHANGED <<records, lists, matcherVars, p, reconciled, report_rows,
                   argVars, graphVars, callVars>>

(* Mode B, lines 150-176: the rules in order on one pair; the report rows
   of the rules that mismatch *)
Truthy(v) == v # None /\ v # Str("") /\ v # Num(0) /\ v # PyInt(0)
FieldGet(row, fv) == IF fv.t = "str" THEN Get(row, fv.v) ELSE None

RuleSrcField(rule) ==
    IF Truthy(Get(rule, "source_field")) THEN Get(rule, "source_field")
    ELSE Get(rule, "field")
RuleTgtFieldSame(rule) == RuleSrcField(rule)
RuleTgtField(rule) == GetDefault(rule, "target_field", RuleSrcField(rule))

(* line 160: the exceptions the rule's try block catches *)
rule_except_value_only == {"ValueError"}
rule_except == {"ValueError", "TypeError"}

(* lines 155-161: the exception of float(v1), float(v2) that the try block
   does not catch *)
RuleError(rule, v1, v2) ==
    IF Get(rule, "validator") = Str("numeric")
          /\ ConvertError(v1, v2) \notin rule_except
    THEN ConvertError(v1, v2)
    ELSE "none"

RuleMismatch(rule, v1, v2) ==
    IF Get(rule, "validator") = Str("numeric")
    THEN IF ~(CanFloat(v1) /\ CanFloat(v2)) THEN TRUE
         ELSE ~numeric_field_validator(Num(Float(v1)), Num(Float(v2)),
                  Float(GetDefault(rule, "tolerance_pct", Num(0)))).value
    ELSE ~string_field_validator(v1, v2)

ReportRow(rule, key_value, v1, v2) ==
    Put(Put(Put(Put((deposit_key :> key_value),
        "field", RuleSrcField(rule)),
        "master_value", v1),
        "list_value", v2),
        "severity", GetDefault(rule, "severity", Str("Error")))

RECURSIVE RuleRowsFirstOnly(_, _, _, _)
RuleRowsFirstOnly(rules, n, src, tgt) ==
    IF n > Len(rules) THEN <<>>
    ELSE LET rule == rules[n]
             v1 == FieldGet(records[src], RuleSrcField(rule))
             v2 == FieldGet(records[tgt], RuleTgtField(rule))
         IN  IF RuleMismatch(rule, v1, v2)
             THEN <<ReportRow(rule, Get(records[src], deposit_key), v1, v2)>>
             ELSE RuleRowsFirstOnly(rules, n + 1, src, tgt)
RECURSIVE RuleRows(_, _, _, _)
RuleRows(rules, n, src, tgt) ==
    IF n > Len(rules) THEN <<>>
    ELSE LET rule == rules[n]
             v1 == FieldGet(records[src], RuleSrcField(rule))
             v2 == FieldGet(records[tgt], RuleTgtField(rule))
         IN  (IF RuleMismatch(rule, v1, v2)
              THEN <<ReportRow(rule, Get(records[src], deposit_key), v1, v2)>>
              ELSE <<>>)
             \o RuleRows(rules, n + 1, src, tgt)

(* the first exception that leaves the rule loop on one pair, or "none" *)
RECURSIVE RulesError(_, _, _, _)
RulesError(rules, n, src, tgt) ==
    IF n > Len(rules) THEN "none"
    ELSE LET rule == rules[n]
             err == RuleError(rule, FieldGet(records[src], RuleSrcField(rule)),
                              FieldGet(records[tgt], RuleTgtField(rule)))
         IN  IF err # "none" THEN err ELSE RulesError(rules, n + 1, src, tgt)

(* Mode B, lines 144-176: one matched pair *)
ModeBPair ==
    /\ pc = "returned"
    /\ pipeline = "workflow"
    /\ UseRules
    /\ p < Len(matched_pairs)
    /\ LET pair == matched_pairs[p + 1]
           src == pair.deposit.v
           tgt == pair.billing.v
           err == RulesError(validation_rules.rules, 1, src, tgt)
           rows == RuleRows(validation_rules.rules, 1, src, tgt)
           ids == [n \in 1..Len(rows) |-> NewDict(n)]
       IN  IF err # "none"
           THEN /\ pc' = "raised"
                /\ exception' = err
                /\ UNCHANGED <<records, report_rows, p>>
           ELSE /\ records' = [x \in DOMAIN records \cup Elems(ids) |->
                                  IF x \in DOMAIN records THEN records[x]
                                  ELSE rows[x[2] - RowCount]]
                /\ report_rows' = report_rows \o ids
                /\ p' = p + 1
                /\ UNCHANGED <<pc, exception>>
    /\ UNCHANGED <<lists, matcherVars, reconciled, unreconciled,
                   files, workflow_result, argVars, graphVars, call>>

(* Mode B, lines 178-181: the report file, the result *)
ModeBFinishWithUnmatched ==
    /\ pc = "returned"
    /\ pipeline = "workflow"
    /\ UseRules
    /\ p >= Len(matched_pairs)
    /\ report_rows' = Extend(Extend(report_rows, match_results.unmatched_deposit),
                             match_results.unmatched_billing)
    /\ files' = (report_path :> Contents(report_rows'))
    /\ workflow_result' = [report |-> report_path]
    /\ pc' = "done"
    /\ UNCHANGED <<records, lists, matcherVars, p, reconciled, unreconciled,
                   argVars, graphVars, callVars>>
ModeBFinish ==
    /\ pc = "returned"
    /\ pipeline = "workflow"
    /\ UseRules
    /\ p >= Len(matched_pairs)
    /\ files' = (report_path :> Contents(report_rows))
    /\ workflow_result' = [report |-> report_path]
    /\ pc' = "done"
    /\ UNCHANGED <<records, lists, matcherVars, p, reconciled, unreconciled,
                   report_rows, argVars, graphVars, callVars>>

(* the rows read from the two files *)
WorkflowSourceRows ==
    {[receipt_no |-> Str("K1"), amount |-> Num(10000), department_code |-> Str("D01")],
     [receipt_no |-> Str("K1"), amount |-> Str("abc"), department_code |-> Str("D01")],
     [receipt_no |-> Str("K1"), amount |-> None, department_code |-> Str("D02")],
     [receipt_no |-> Str("K1"), department_code |-> Str("D02")],
     [receipt_no |-> Str("K2"), amount |-> Num(10000), department_code |-> Str("D01")]}

WorkflowTargetRows ==
    {[invoice_number |-> Str("K1"), amount |-> Num(10000), dept |-> Str("D01")],
     [invoice_number |-> Str("K1"), amount |-> Num(10100), dept |-> Str("D02")],
     [invoice_number |-> Str("K1"), dept |-> Str("D01")],
     [invoice_number |-> Str("K2"), amount |-> Str("100"), dept |-> Str("D01")]}

DeptRule ==
    [field |-> Str("department_code"), target_field |-> Str("dept"),
     severity |-> Str("Warning")]
AmountRule ==
    [field |-> Str("amount"), validator |-> Str("numeric"), tolerance_pct |-> Num(100)]

TitleRule ==
    [field |-> Str("title_code"), severity |-> Str("Error")]

RuleLists == {<<>>, <<DeptRule>>, <<AmountRule, DeptRule>>}

(* a call of generic_matching_workflow: lines 81-82 have read the files *)
WorkflowSourceLists == SeqsUpTo(WorkflowSourceRows, MaxWorkflowRows)
WorkflowTargetLists == SeqsUpTo(WorkflowTargetRows, MaxWorkflowRows)

InitWorkflow ==
    \E src \in WorkflowSourceLists, tgt \in WorkflowTargetLists :
        /\ Entry(src, tgt)
        /\ \/ validation_rules = NoRules /\ tolerance_pct \in {0, 100}
           \/ validation_rules \in {RulesGiven(l) : l \in RuleLists} /\ tolerance_pct = 0
        /\ source_key = "receipt_no"
        /\ target_key = "invoice_number"
        /\ pipeline = "workflow"
        /\ call = NoCall
        /\ NoGraph

NextWorkflow ==
    \/ key_based_matcher
    \/ ModeAPair
    \/ ModeAFinish
    \/ ModeBPair
    \/ ModeBFinish

SpecWorkflow == InitWorkflow /\ [][NextWorkflow]_vars

----------------------------------------------------------------------------
(* the graph nodes: match_data_by_key, validate_and_sort_matches and the two
   writers *)

(* nodes.py line 85: the exception the node's try block catches *)
nodes_except == {"ValueError"}

(* match_data_by_key: infer_matching_keys raises ValueError on an empty
   list; the key names it returns are source_key and target_key *)
match_data_by_key ==
    /\ pc = "start"
    /\ pipeline = "nodes"
    /\ IF deposit_data = <<>> \/ billing_data = <<>>
       THEN /\ pc' = "raised"
            /\ exception' = "ValueError"
            /\ UNCHANGED <<lists, matcherVars>>
       ELSE /\ MatcherCall
            /\ pc' = "returned"
            /\ UNCHANGED exception
    /\ UNCHANGED <<records, workflowVars, argVars, graphVars, call>>

(* validate_and_sort_matches, lines 78-96: one matched pair *)
ValidatePair ==
    /\ pc = "returned"
    /\ pipeline = "nodes"
    /\ p < Len(matched_pairs)
    /\ LET pair == matched_pairs[p + 1]
           dep == pair.deposit.v
           bill == pair.billing.v
           a == GetDefault(records[dep], "amount", Num(0))
           b == GetDefault(records[bill], "amount", Num(0))
           err == ConvertError(a, b)
           row == NewDict(1)
           merged == Merge(records[dep], records[bill])
       IN  IF err # "none" /\ err \notin nodes_except
           THEN /\ pc' = "raised"
                /\ exception' = err
                /\ UNCHANGED <<records, reconciled, unreconciled, p>>
           ELSE /\ IF err # "none"
                   THEN /\ records' = Alloc(records, row,
                               Put(merged, "validation_error", Str("invalid_amount")))
                        /\ unreconciled' = Append(unreconciled, row)
                        /\ UNCHANGED reconciled
                   ELSE IF difference_validator(Num(Float(a)), Num(Float(b)),
                                                default_tolerance).value
                   THEN /\ records' = Alloc(records, row, merged)
                        /\ reconciled' = Append(reconciled, row)
                        /\ UNCHANGED unreconciled
                   ELSE /\ records' = Alloc(records, row,
                               Put(merged, "difference", Num(Difference(Float(a), Float(b)))))
                        /\ unreconciled' = Append(unreconciled, row)
                        /\ UNCHANGED reconciled
                /\ p' = p + 1
                /\ UNCHANGED <<pc, exception>>
    /\ UNCHANGED <<lists, matcherVars, report_rows, files, workflow_result,
                   argVars, graphVars, call>>

(* validate_and_sort_matches, lines 98-104: the unmatched rows, the two
   lists stored in the state *)
ValidateFinish ==
    /\ pc = "returned"
    /\ pipeline = "nodes"
    /\ p >= Len(matched_pairs)
    /\ unreconciled' = Extend(Extend(unreconciled, match_results.unmatched_deposit),
                              match_results.unmatched_billing)
    /\ pc' = "validated"
    /\ UNCHANGED <<records, lists, matcherVars, p, reconciled, report_rows, files,
                   workflow_result, argVars, graphVars, callVars>>

(* write_reconciled_csv: the file, and final_output_paths; the run is done
   when both files are written *)
write_reconciled_csv ==
    /\ pc = "validated"
    /\ pipeline = "nodes"
    /\ "reconciled" \notin DOMAIN workflow_result
    /\ files' = (reconciled_path :> Contents(reconciled)) @@ files
    /\ workflow_result' = ("reconciled" :> reconciled_path) @@ workflow_result
    /\ pc' = IF "unreconciled" \in DOMAIN workflow_result THEN "done" ELSE "validated"
    /\ UNCHANGED <<records, lists, matcherVars, p, reconciled, unreconciled,
                   report_rows, argVars, graphVars, callVars>>

(* write_unreconciled_csv *)
write_unreconciled_csv ==
    /\ pc = "validated"
    /\ pipeline = "nodes"
    /\ "unreconciled" \notin DOMAIN workflow_result
    /\ files' = (unreconciled_path :> Contents(unreconciled)) @@ files
    /\ workflow_result' = ("unreconciled" :> unreconciled_path) @@ workflow_result
    /\ pc' = IF "reconciled" \in DOMAIN workflow_result THEN "done" ELSE "validated"
    /\ UNCHANGED <<records, lists, matcherVars, p, reconciled, unreconciled,
                   report_rows, argVars, graphVars, callVars>>

(* the end-to-end scenario of the reconciliation: three deposits and three
   billings keyed by invoice_number *)
ScenarioSource ==
    <<[invoice_number |-> Str("INV-001"), amount |-> Num(100000)],
      [invoice_number |-> Str("INV-002"), amount |-> Num(150000)],
      [invoice_number |-> Str("INV-003"), amount |-> Num(50000)]>>
ScenarioTarget ==
    <<[invoice_number |-> Str("INV-001"), amount |-> Num(100000)],
      [invoice_number |-> Str("INV-002"), amount |-> Num(150100)],
      [invoice_number |-> Str("INV-004"), amount |-> Num(80000)]>>

(* the data the two reader nodes loaded and the key names inferred *)
NodesInputs ==
    {[src |-> src, tgt |-> tgt,
      source_key |-> "receipt_no", target_key |-> "invoice_number"] :
        src \in WorkflowSourceLists, tgt \in WorkflowTargetLists}
    \cup {[src |-> ScenarioSource, tgt |-> ScenarioTarget,
           source_key |-> "invoice_number", target_key |-> "invoice_number"]}

InitNodes ==
    \E in \in NodesInputs :
        /\ Entry(in.src, in.tgt)
        /\ validation_rules = NoRules
        /\ tolerance_pct = 0
        /\ source_key = in.source_key
        /\ target_key = in.target_key
        /\ pipeline = "nodes"
        /\ call = NoCall
        /\ NoGraph

NextNodes ==
    \/ match_data_by_key
    \/ ValidatePair
    \/ ValidateFinish
    \/ write_reconciled_csv
    \/ write_unreconciled_csv

----------------------------------------------------------------------------
(* the validation of the HR data: the rule-based mode of the workflow on
   the master and the department list, and the node _validate_hr of the
   employee data validator agent *)

(* the rows read from the HR master and from the department list *)
MasterRow ==
    [employee_id |-> PyInt(1001), department_code |-> Str("D01"), title_code |-> Str("T03")]
ListRow ==
    [emp_id |-> PyInt(1001), dept |-> Str("D02"), title_code |-> Str("T05")]
HrMasterRows ==
    {MasterRow,
     [employee_id |-> PyInt(1002), department_code |-> Str("D02"), title_code |-> Str("T04")]}
HrListRows ==
    {ListRow,
     [emp_id |-> PyInt(1002), dept |-> Str("D02"), title_code |-> Str("T05")],
     [emp_id |-> PyInt(1001), dept |-> Str("D01"), title_code |-> Str("T03")]}
HrMasterLists == SeqsUpTo(HrMasterRows, MaxWorkflowRows)
HrDeptLists == SeqsUpTo(HrListRows, MaxWorkflowRows)

(* a call of generic_matching_workflow with the two HR rules *)
InitHrWorkflow ==
    \E src \in HrMasterLists, tgt \in HrDeptLists :
        /\ Entry(src, tgt)
        /\ validation_rules = RulesGiven(<<DeptRule, TitleRule>>)
        /\ tolerance_pct = 0
        /\ source_key = "employee_id"
        /\ target_key = "emp_id"
        /\ pipeline = "workflow"
        /\ call = NoCall
        /\ NoGraph

(* a != b of two field values *)
PyEq(a, b) ==
    IF a.t \in {"num", "int"} /\ b.t \in {"num", "int"}
    THEN Float(a) = Float(b)
    ELSE a = b

(* _wrap of build_specialist_graph: the node's name is recorded before the
   node runs; a node called on its own is not wrapped *)
Executed(name) ==
    IF agent = "none" THEN state
    ELSE Put(state, "_executed_tools",
             Append(GetDefault(state, "_executed_tools", <<>>), name))

(* line 43: master_index, under str(employee_id), the last row of each id *)
RECURSIVE master_index(_, _, _)
master_index(master_rows, n, idx) ==
    IF n > Len(master_rows) THEN idx
    ELSE master_index(master_rows, n + 1,
             Put(idx, StrOf(Get(records[master_rows[n]], "employee_id")), master_rows[n]))

HrRow(emp_id, field, master_value, list_value, severity) ==
    [employee_id |-> Str(emp_id), field |-> Str(field), master_value |-> master_value,
     list_value |-> list_value, severity |-> Str(severity)]

(* lines 46-72: the report rows of the department rows from the n-th on *)
RECURSIVE HrReportRows(_, _, _)
HrReportRows(dept_rows, n, idx) ==
    IF n > Len(dept_rows) THEN <<>>
    ELSE LET d == records[dept_rows[n]]
             emp_id == StrOf(Get(d, "emp_id"))
             rest == HrReportRows(dept_rows, n + 1, idx)
         IN  IF emp_id \notin DOMAIN idx \/ DOMAIN records[idx[emp_id]] = {}
             THEN rest
             ELSE LET m == records[idx[emp_id]]
                  IN  (IF ~PyEq(Get(m, "department_code"), Get(d, "dept"))
                       THEN <<HrRow(emp_id, "department_code",
                                    Get(m, "department_code"), Get(d, "dept"), "Warning")>>
                       ELSE <<>>)
                      \o (IF ~PyEq(Get(m, "title_code"), Get(d, "title_code"))
                          THEN <<HrRow(emp_id, "title_code",
                                       Get(m, "title_code"), Get(d, "title_code"), "Error")>>
                          ELSE <<>>)
                      \o rest

hr_report_path == "output/inconsistent_hr_data.csv"

(* _validate_hr, lines 32-80 *)
validate_hr_data ==
    /\ sub = "validate_hr_data"
    /\ LET before == Executed("validate_hr_data")
           input_files == GetDefault(before, "input_files", <<>>)
           master_file == Get(input_files, "deposit")
           dept_file == Get(input_files, "billing")
           rows == HrReportRows(billing_data, 1, master_index(deposit_data, 1, <<>>))
           ids == [n \in 1..Len(rows) |-> NewDict(n)]
       IN  IF ~Truthy(master_file) \/ ~Truthy(dept_file)
           THEN /\ exception' = "RuntimeError"
                /\ sub' = "raised"
                /\ state' = before
                /\ UNCHANGED <<records, report_rows, files>>
           ELSE /\ records' = [x \in DOMAIN records \cup Elems(ids) |->
                                  IF x \in DOMAIN records THEN records[x]
                                  ELSE rows[x[2] - RowCount]]
                /\ report_rows' = ids
                /\ files' = (hr_report_path :> rows) @@ files
                /\ state' = Put(before, "final_output_paths",
                                Put(GetDefault(before, "final_output_paths", <<>>),
                                    "inconsistent_hr_data", hr_report_path))
                /\ sub' = IF agent = "none" THEN "returned" ELSE "planner"
                /\ UNCHANGED exception
    /\ UNCHANGED <<pc, lists, matcherVars, p, reconciled, unreconciled, workflow_result,
                   argVars, call, node, agent, dispatched, workflow_calls, llm, steps>>

(* the input_files of a state: the two files under deposit and billing, or
   under other names, or one of them missing *)
HrInputFiles ==
    {[deposit |-> Str("hr_master.csv"), billing |-> Str("dev_dept_list.xlsx")],
     [master |-> Str("hr_master.csv"), list |-> Str("dev_dept_list.xlsx")],
     [deposit |-> Str("hr_master.csv")]}

(* a call of _validate_hr on its own; the readers return the rows *)
InitHr ==
    \E src \in HrMasterLists, tgt \in HrDeptLists, inp \in HrInputFiles :
        /\ Entry(src, tgt)
        /\ validation_rules = NoRules
        /\ tolerance_pct = 0
        /\ source_key = "employee_id"
        /\ target_key = "emp_id"
        /\ pipeline = "hr"
        /\ call = NoCall
        /\ state = [input_files |-> inp]
        /\ node = "none"
        /\ agent = "none"
        /\ sub = "validate_hr_data"
        /\ dispatched = <<>>
        /\ workflow_calls = <<>>
        /\ llm = FALSE
        /\ steps = 0

(* a run of any pipeline *)
InitPipelines == InitWorkflow \/ InitNodes \/ InitHrWorkflow \/ InitHr

NextPipelines == NextWorkflow \/ NextNodes \/ validate_hr_data

SpecPipelines == InitPipelines /\ [][NextPipelines]_vars

----------------------------------------------------------------------------
(* the graphs: the supervisor graph of build_graph, and the graph that
   build_specialist_graph makes of a specialist agent's nodes *)

MaxSupersteps == 3
MaxDispatches == 2

(* AgentEnum, generic_planner.py lines 65-68 *)
Agents ==
    {"receivables_reconciliation_agent", "inventory_matching_agent",
     "employee_data_validator_agent"}

(* _NODE_MAP of each agent, in order *)
NodeMap(a) ==
    IF a = "employee_data_validator_agent"
    THEN <<"validate_hr_data">>
    ELSE <<"ensure_files", "run_matching">>

(* the keys of AppState: the channels of the graph *)
AppStateKeys ==
    {"input_files", "raw_deposit_data", "raw_billing_data", "matching_results",
     "reconciled_list", "unreconciled_list", "final_output_paths", "plan_next",
     "human_validation_answer", "instruction_tasks", "suggested_queue",
     "_executed_tools", "next_agent", "agent_parameters", "errors"}

(* what a node's returned dict leaves in the graph's state: the graph
   writes the keys that are channels and drops the others *)
Channels(st) == [k \in DOMAIN st \cap AppStateKeys |-> st[k]]

(* a or b *)
Or(a, b) == IF Truthy(a) THEN a ELSE b

(* not state["_src_file"] or not state["_tgt_file"] *)
SourceMissing(src_file, tgt_file) == ~Truthy(src_file)
FileMissing(src_file, tgt_file) == ~Truthy(src_file) \/ ~Truthy(tgt_file)

(* receivables_reconciliation_agent._ensure_files, lines 20-28 *)
receivables_ensure(st) ==
    LET params == GetDefault(st, "agent_parameters", <<>>)
        inp == GetDefault(st, "input_files", <<>>)
        src_file == Or(Get(params, "source_file"), Get(inp, "deposit"))
        tgt_file == Or(Get(params, "target_file"), Get(inp, "billing"))
        st1 == Put(Put(st, "_src_file", src_file), "_tgt_file", tgt_file)
    IN  IF FileMissing(src_file, tgt_file)
        THEN Raises("RuntimeError")
        ELSE Returns(Put(st1, "_output_dir", GetDefault(params, "output_dir", Str("output"))))

(* inventory_matching_agent._ensure_files, lines 23-40 *)
inventory_ensure(st) ==
    LET params == GetDefault(st, "agent_parameters", <<>>)
        input_files == GetDefault(st, "input_files", <<>>)
        src_file == Or(Or(Get(params, "source_file"), Get(input_files, "inventory_count")),
                       Get(input_files, "deposit"))
        tgt_file == Or(Or(Get(params, "target_file"), Get(input_files, "inventory_master")),
                       Get(input_files, "billing"))
    IN  IF FileMissing(src_file, tgt_file)
        THEN Raises("RuntimeError")
        ELSE Returns(Put(Put(st, "_src_file", src_file), "_tgt_file", tgt_file))

(* an exception leaves the agent's graph *)
AgentRaises(e) ==
    /\ exception' = e
    /\ sub' = "raised"

(* the node ensure_files of the two agents *)
receivables_ensure_files ==
    /\ agent = "receivables_reconciliation_agent"
    /\ sub = "ensure_files"
    /\ LET out == receivables_ensure(Executed("ensure_files"))
       IN  IF out.raised # "none"
           THEN AgentRaises(out.raised) /\ UNCHANGED state
           ELSE /\ state' = Channels(out.value)
                /\ sub' = "planner"
                /\ UNCHANGED exception
    /\ UNCHANGED <<pc, records, lists, matcherVars, workflowVars, argVars, call,
                   node, agent, dispatched, workflow_calls, llm, steps>>

inventory_ensure_files ==
    /\ agent = "inventory_matching_agent"
    /\ sub = "ensure_files"
    /\ LET out == inventory_ensure(Executed("ensure_files"))
       IN  IF out.raised # "none"
           THEN AgentRaises(out.raised) /\ UNCHANGED state
           ELSE /\ state' = Channels(out.value)
                /\ sub' = "planner"
                /\ UNCHANGED exception
    /\ UNCHANGED <<pc, records, lists, matcherVars, workflowVars, argVars, call,
                   node, agent, dispatched, workflow_calls, llm, steps>>

(* the call of generic_matching_workflow: the readers return the rows of
   the two files, nothing is computed yet *)
WorkflowEntered(st, skey, tkey, tol) ==
    /\ workflow_calls' = Append(workflow_calls,
                                [source_file |-> st["_src_file"],
                                 target_file |-> st["_tgt_file"]])
    /\ pipeline' = "workflow"
    /\ source_key' = skey
    /\ target_key' = tkey
    /\ tolerance_pct' = tol
    /\ validation_rules' = NoRules
    /\ pc' = "start"
    /\ records' = records0
    /\ lists' = [deposit_data |-> deposit_data0, billing_data |-> billing_data0,
                 remaining_billing |-> <<>>]
    /\ billing_index' = <<>>
    /\ matched_pairs' = <<>>
    /\ unmatched_deposit' = <<>>
    /\ p' = 0
    /\ reconciled' = <<>>
    /\ unreconciled' = <<>>
    /\ report_rows' = <<>>
    /\ workflow_result' = <<>>
    /\ UNCHANGED <<files, deposit_data0, billing_data0, records0>>

(* run_matching raises before the call *)
NotEntered ==
    UNCHANGED <<pc, records, lists, matcherVars, workflowVars, argVars, workflow_calls>>

(* receivables_reconciliation_agent._run_matching, lines 30-44: up to the
   call of the workflow *)
receivables_run_matching ==
    /\ agent = "receivables_reconciliation_agent"
    /\ sub = "run_matching"
    /\ pipeline # "workflow"
    /\ LET before == Executed("run_matching")
           out == IF "_src_file" \notin DOMAIN before \/ "_tgt_file" \notin DOMAIN before
                  THEN receivables_ensure(before)
                  ELSE Returns(before)
       IN  IF out.raised # "none"
           THEN AgentRaises(out.raised) /\ NotEntered /\ UNCHANGED state
           ELSE /\ state' = out.value
                /\ WorkflowEntered(out.value, "receipt_no", "invoice_number", 0)
                /\ UNCHANGED <<sub, exception>>
    /\ UNCHANGED <<call, node, agent, dispatched, llm, steps>>

(* lines 45-46: the workflow has returned *)
receivables_run_matching_return ==
    /\ agent = "receivables_reconciliation_agent"
    /\ sub = "run_matching"
    /\ pipeline = "workflow"
    /\ pc = "done"
    /\ state' = Channels(Put(state, "final_output_paths",
                             Merge(GetDefault(state, "final_output_paths", <<>>),
                                   workflow_result)))
    /\ pipeline' = "agent"
    /\ sub' = "planner"
    /\ UNCHANGED <<pc, records, lists, matcherVars, workflowVars, validation_rules,
                   tolerance_pct, deposit_data0, billing_data0, records0, source_key,
                   target_key, callVars, node, agent, dispatched, workflow_calls,
                   llm, steps>>

(* inventory_matching_agent._run_matching, lines 43-67: up to the call of
   the workflow; tolerance_pct defaults to 2.0 *)
inventory_tolerance == 200
inventory_run_matching ==
    /\ agent = "inventory_matching_agent"
    /\ sub = "run_matching"
    /\ pipeline # "workflow"
    /\ LET before == Executed("run_matching")
           out == IF "_src_file" \notin DOMAIN before \/ "_tgt_file" \notin DOMAIN before
                  THEN inventory_ensure(before)
                  ELSE Returns(before)
       IN  IF out.raised # "none"
           THEN AgentRaises(out.raised) /\ NotEntered /\ UNCHANGED state
           ELSE /\ state' = out.value
                /\ WorkflowEntered(out.value, "sku_code", "sku", inventory_tolerance)
                /\ UNCHANGED <<sub, exception>>
    /\ UNCHANGED <<call, node, agent, dispatched, llm, steps>>

discrepancy_path == "output/discrepancy_report.csv"

(* lines 71-83: the workflow has returned; unreconciled.csv is copied *)
inventory_run_matching_return ==
    /\ agent = "inventory_matching_agent"
    /\ sub = "run_matching"
    /\ pipeline = "workflow"
    /\ pc = "done"
    /\ IF "unreconciled" \in DOMAIN workflow_result
       THEN /\ files' = (discrepancy_path :> files[workflow_result.unreconciled]) @@ files
            /\ state' = Channels(Put(state, "final_output_paths",
                                     Put(GetDefault(state, "final_output_paths", <<>>),
                                         "discrepancy_report", discrepancy_path)))
       ELSE /\ UNCHANGED files
            /\ state' = Channels(state)
    /\ pipeline' = "agent"
    /\ sub' = "planner"
    /\ UNCHANGED <<pc, records, lists, matcherVars, p, reconciled, unreconciled,
                   report_rows, workflow_result, validation_rules,
                   tolerance_pct, deposit_data0, billing_data0, records0, source_key,
                   target_key, callVars, node, agent, dispatched, workflow_calls,
                   llm, steps>>

(* the planner of an agent's graph, made by make_planner(tool_names), and
   the conditional edge that follows it (specialist_agent.py lines 47-51):
   without an LLM the first tool not yet executed, "__end__" when none is
   left; with an LLM any of the candidates *)
FirstUnexecuted(tools, executed) ==
    IF \A n \in 1..Len(tools) : tools[n] \in Elems(executed) THEN "__end__"
    ELSE tools[CHOOSE n \in 1..Len(tools) :
                  /\ tools[n] \notin Elems(executed)
                  /\ \A m \in 1..(n - 1) : tools[m] \in Elems(executed)]

PlannerCandidates ==
    IF llm THEN Elems(NodeMap(agent)) \cup {"__end__"}
    ELSE {FirstUnexecuted(NodeMap(agent), GetDefault(state, "_executed_tools", <<>>))}

specialist_planner ==
    /\ agent \in Agents
    /\ sub = "planner"
    /\ IF steps >= MaxSupersteps
       THEN AgentRaises("GraphRecursionError") /\ UNCHANGED <<state, steps>>
       ELSE /\ \E next \in PlannerCandidates :
                  /\ state' = Put(state, "plan_next", next)
                  /\ sub' = next
            /\ steps' = steps + 1
            /\ UNCHANGED exception
    /\ UNCHANGED <<pc, records, lists, matcherVars, workflowVars, argVars, call,
                   node, agent, dispatched, workflow_calls, llm>>

(* the agent function: _GRAPH.invoke(state) has reached END *)
specialist_agent_return ==
    /\ agent \in Agents
    /\ sub = "__end__"
    /\ state' = Put(state, "plan_next", "__end__")
    /\ sub' = "none"
    /\ node' = IF node = "agent" THEN "planner" ELSE "returned"
    /\ UNCHANGED <<pc, records, lists, matcherVars, workflowVars, argVars, callVars,
                   agent, dispatched, workflow_calls, llm, steps>>

(* the agent's node of the supervisor graph, nodes.py lines 445-461:
   _mark_executed, then the agent function invokes the agent's graph *)
agent_node ==
    /\ node = "agent"
    /\ sub = "none"
    /\ state' = Put(state, "_executed_tools",
                    Append(GetDefault(state, "_executed_tools", <<>>), agent))
    /\ sub' = "planner"
    /\ steps' = 0
    /\ UNCHANGED <<pc, records, lists, matcherVars, workflowVars, argVars, callVars,
                   node, agent, dispatched, workflow_calls, llm>>

(* the parameters an LLM extraction yields: model_dump(exclude_none=True) *)
LlmParameters ==
    {[output_dir |-> Str("output")],
     [source_file |-> Str("deposit.csv"), target_file |-> Str("billing.xlsx"),
      output_dir |-> Str("output")]}

(* lines 90-96 and 157-163: the fallback *)
Fallback(st) ==
    LET input_files == GetDefault(st, "input_files", <<>>)
    IN  Put(Put(Put(st, "next_agent", "receivables_reconciliation_agent"),
                "plan_next", "receivables_reconciliation_agent"),
            "agent_parameters",
            [source_file |-> Get(input_files, "deposit"),
             target_file |-> Get(input_files, "billing"),
             output_dir |-> Str("output")])

(* lines 157-160 when input_files was never bound: the two assignments,
   then the read of input_files raises *)
FallbackUnbound(st) ==
    Put(Put(st, "next_agent", "receivables_reconciliation_agent"),
        "plan_next", "receivables_reconciliation_agent")

(* lines 80-87: the instruction file, when there is one, is parsed; a
   failure of the parser is not fatal *)
WithInstruction(st) ==
    {st} \cup (IF Truthy(Get(GetDefault(st, "input_files", <<>>), "instruction"))
               THEN {Put(st, "instruction_tasks", <<"task">>)}
               ELSE {})

(* _enhanced_planner, lines 74-165 *)
enhanced_planner ==
    /\ node \in {"planner", "call"}
    /\ sub = "none"
    /\ IF GetDefault(state, "plan_next", "") = "__end__"
       THEN /\ node' = IF node = "call" THEN "returned" ELSE "select"
            /\ UNCHANGED <<state, exception>>
       ELSE \E st \in WithInstruction(state) :
               \/ /\ ~llm
                  /\ state' = Fallback(st)
                  /\ node' = IF node = "call" THEN "returned" ELSE "select"
                  /\ UNCHANGED exception
               \/ /\ llm
                  /\ \/ (* ChatOpenAI or the parser cannot be constructed *)
                        /\ state' = FallbackUnbound(st)
                        /\ exception' = "UnboundLocalError"
                        /\ node' = "raised"
                     \/ (* the LLM call or the parse fails *)
                        /\ state' = Fallback(st)
                        /\ node' = IF node = "call" THEN "returned" ELSE "select"
                        /\ UNCHANGED exception
                     \/ (* the extraction succeeds *)
                        /\ \E a \in Agents, params \in LlmParameters :
                              state' = Put(Put(Put(st, "next_agent", a),
                                               "agent_parameters", params),
                                           "plan_next", a)
                        /\ node' = IF node = "call" THEN "returned" ELSE "select"
                        /\ UNCHANGED exception
    /\ UNCHANGED <<pc, records, lists, matcherVars, workflowVars, argVars, call,
                   agent, sub, dispatched, workflow_calls, llm, steps>>

(* _enhanced_edge_selector and the conditional edges, workflow.py lines
   69-93; the graph stops a run that takes too many supersteps *)
enhanced_edge_selector ==
    /\ node = "select"
    /\ LET next_agent == GetDefault(state, "next_agent", "")
           target == IF next_agent # "" THEN next_agent
                     ELSE GetDefault(state, "plan_next", "__end__")
       IN  IF target = "__end__"
           THEN /\ node' = "__end__"
                /\ UNCHANGED <<agent, dispatched, exception>>
           ELSE IF Len(dispatched) >= MaxDispatches
           THEN /\ node' = "raised"
                /\ exception' = "GraphRecursionError"
                /\ UNCHANGED <<agent, dispatched>>
           ELSE /\ node' = "agent"
                /\ agent' = target
                /\ dispatched' = Append(dispatched, target)
                /\ UNCHANGED exception
    /\ UNCHANGED <<pc, records, lists, matcherVars, workflowVars, argVars, call,
                   state, sub, workflow_calls, llm, steps>>

(* the rows of the two input files *)
GraphData ==
    {[src |-> <<[receipt_no |-> Str("K1"), amount |-> Num(10000)],
               [receipt_no |-> Str("K2"), amount |-> Num(10000)]>>,
      tgt |-> <<[invoice_number |-> Str("K1"), amount |-> Num(10100)]>>],
     [src |-> <<[sku_code |-> Str("S1"), system_quantity |-> PyInt(100)]>>,
      tgt |-> <<[sku |-> Str("S1"), actual_quantity |-> PyInt(98)]>>],
     [src |-> <<MasterRow>>, tgt |-> <<ListRow>>]}

(* the input_files of a state *)
InputFiles ==
    {[deposit |-> Str("deposit.csv"), billing |-> Str("billing.xlsx")],
     [inventory |-> Str("system_inventory.csv"), stock |-> Str("physical_inventory.xlsx")],
     [inventory_count |-> Str("system_inventory.csv"),
      inventory_master |-> Str("physical_inventory.xlsx")],
     [master |-> Str("hr_master.csv"), list |-> Str("dev_dept_list.xlsx")],
     [deposit |-> Str("deposit.csv")],
     <<>>}

(* the agent_parameters of a state *)
AgentParameters ==
    LlmParameters
    \cup {[source_file |-> None, target_file |-> None, output_dir |-> Str("output")],
          [target_file |-> Str("billing.xlsx")]}

(* the states a specialist agent is called on *)
AgentCallStates ==
    {[input_files |-> inp] : inp \in InputFiles}
    \cup {[input_files |-> inp, agent_parameters |-> params] :
             inp \in InputFiles, params \in AgentParameters}

(* the states the supervisor's planner is called on *)
PlannerCallStates ==
    {[input_files |-> inp] : inp \in InputFiles}
    \cup {[input_files |-> inp, plan_next |-> next] :
             inp \in InputFiles, next \in {"__end__", "receivables_reconciliation_agent"}}
    \cup {[input_files |-> [deposit |-> Str("deposit.csv"), billing |-> Str("billing.xlsx"),
                            instruction |-> Str("instruction.md")]]}

(* the data of a graph run: the rows of the files, no workflow running *)
GraphEntry ==
    /\ \E data \in GraphData : Entry(data.src, data.tgt)
    /\ validation_rules = NoRules
    /\ tolerance_pct = 0
    /\ source_key = "receipt_no"
    /\ target_key = "invoice_number"
    /\ pipeline = "agent"
    /\ call = NoCall
    /\ dispatched = <<>>
    /\ workflow_calls = <<>>
    /\ llm \in BOOLEAN
    /\ steps = 0

(* run_workflow, workflow.py lines 121-136 *)
InitRunWorkflow ==
    /\ GraphEntry
    /\ state \in {[input_files |-> [deposit |-> Str("deposit.csv"),
                                   billing |-> Str("billing.xlsx")]],
                  [input_files |-> [deposit |-> Str("deposit.csv"),
                                   billing |-> Str("billing.xlsx"),
                                   instruction |-> Str("instruction.md")]]}
    /\ node = "planner"
    /\ agent = "none"
    /\ sub = "none"

(* a call of a specialist agent's function *)
InitAgentCall ==
    /\ GraphEntry
    /\ state \in AgentCallStates
    /\ node = "none"
    /\ agent \in Agents
    /\ sub = "planner"

(* a call of the supervisor's planner *)
InitPlannerCall ==
    /\ GraphEntry
    /\ state \in PlannerCallStates
    /\ node = "call"
    /\ agent = "none"
    /\ sub = "none"

InitGraph == InitRunWorkflow \/ InitAgentCall \/ InitPlannerCall

NextGraph ==
    \/ enhanced_planner
    \/ enhanced_edge_selector
    \/ agent_node
    \/ specialist_planner
    \/ specialist_agent_return
    \/ receivables_ensure_files
    \/ receivables_run_matching
    \/ receivables_run_matching_return
    \/ inventory_ensure_files
    \/ inventory_run_matching
    \/ inventory_run_matching_return
    \/ validate_hr_data
    \/ key_based_matcher
    \/ ModeAPair
    \/ ModeAFinish

SpecGraph == InitGraph /\ [][NextGraph]_vars

----------------------------------------------------------------------------
(* calls of the validators on their own *)

MaxTolerancePct == 30

ValidatorAmounts == {-100, 0, 50, 100, 101, 129, 1000, 1001}

ValidatorValues ==
    {None, Str("abc"), Str("100")} \cup {Num(100 * n) : n \in ValidatorAmounts}

(* the tolerance argument: omitted, one hundredth, or a whole number *)
ValidatorTolerances ==
    {None, Num(1)} \cup {Num(100 * t) : t \in 0..MaxTolerancePct}

PendingCalls ==
    [fn : {"pending"}, value1 : ValidatorValues, value2 : ValidatorValues,
     tolerance : ValidatorTolerances]

InitValidators ==
    /\ Entry(<<>>, <<>>)
    /\ validation_rules = NoRules
    /\ tolerance_pct = 0
    /\ source_key = "receipt_no"
    /\ target_key = "invoice_number"
    /\ pipeline = "workflow"
    /\ call \in PendingCalls
    /\ NoGraph

Outcome(fn, outcome) ==
    [fn |-> fn, value1 |-> call.value1, value2 |-> call.value2,
     tolerance |-> call.tolerance, outcome |-> outcome]

(* numeric_field_validator(value1, value2, tolerance) *)
call_numeric_field_validator ==
    /\ call.fn = "pending"
    /\ call.tolerance # None
    /\ call' = Outcome("numeric_field_validator",
                 numeric_field_validator(call.value1, call.value2, call.tolerance.v))
    /\ UNCHANGED <<pc, records, lists, matcherVars, workflowVars, argVars, graphVars, exception>>

(* difference_validator(amount_deposit, amount_billing[, tolerance]) *)
call_difference_validator ==
    /\ call.fn = "pending"
    /\ call' = Outcome("difference_validator",
                 difference_validator(call.value1, call.value2,
                     IF call.tolerance = None THEN default_tolerance
                     ELSE call.tolerance.v))
    /\ UNCHANGED <<pc, records, lists, matcherVars, workflowVars, argVars, graphVars, exception>>

NextValidators ==
    \/ call_numeric_field_validator
    \/ call_difference_validator

SpecValidators == InitValidators /\ [][NextValidators]_vars

----------------------------------------------------------------------------
(* Vocabulary of the matcher's properties.  Object ids carry the position of
   the record in the list passed in, and records0 its contents at entry. *)

Returned == pc # "start"

SourceKey0(o) == Get(records0[o], deposit_key)
TargetKey0(o) == Get(records0[o], billing_key)

Occurrences(lst, o) == Cardinality({n \in 1..Len(lst) : lst[n] = o})

PairSources == [n \in 1..Len(matched_pairs) |-> matched_pairs[n].deposit.v]
PairTargets == [n \in 1..Len(matched_pairs) |-> matched_pairs[n].billing.v]

(* the non-null key values carried by some target record passed in *)
TargetKeys0 == {TargetKey0(o) : o \in Elems(billing_data0)} \ {None}

(* some non-null key value is carried by two target records *)
DuplicatedTargetKey ==
    \E a, b \in Elems(billing_data0) :
        a # b /\ TargetKey0(a) # None /\ TargetKey0(a) = TargetKey0(b)

(* some target record is the target side of two pairs *)
TargetPairedTwice ==
    \E a, b \in 1..Len(matched_pairs) : a # b /\ PairTargets[a] = PairTargets[b]

StrictlyIncreasing(lst) ==
    \A a, b \in 1..Len(lst) : a < b => lst[a][2] < lst[b][2]

----------------------------------------------------------------------------
(* C1: after a matcher call every source record is the source side of
   exactly one pair or occurs exactly once in unmatched_deposit, never both,
   so at return |matched_pairs| + |unmatched_deposit| = |source|. *)
C1_SourcePartition ==
    Returned =>
        /\ \A n \in 1..Len(deposit_data0) :
              Occurrences(PairSources, SrcId(n))
                + Occurrences(match_results.unmatched_deposit, SrcId(n)) = 1
        /\ Len(match_results.matched_pairs) + Len(match_results.unmatched_deposit)
              = Len(deposit_data0)

(* a call with a repeated source key, both pairing, and a null-key source *)
C1_Witness ==
    /\ pc = "returned"
    /\ Len(deposit_data0) = 3
    /\ Len(matched_pairs) = 2
    /\ SourceKey0(PairSources[1]) = SourceKey0(PairSources[2])
    /\ Len(unmatched_deposit) = 1
    /\ SourceKey0(unmatched_deposit[1]) = None

(* C2: no target record is the target side of more than one matched pair. *)
C2_TargetPairedAtMostOnce == Returned => ~TargetPairedTwice

(* C3 as amended: the index holds, for each non-null key value, the last
   target record in target order carrying it, so every pair's target is the
   last occurrence of its key and never an earlier duplicate. *)
C3_LastOccurrenceIndexed ==
    Returned =>
        /\ DOMAIN billing_index = TargetKeys0
        /\ \A k \in DOMAIN billing_index :
              /\ TargetKey0(billing_index[k]) = k
              /\ \A o \in Elems(billing_data0) :
                    TargetKey0(o) = k => o[2] <= billing_index[k][2]
        /\ \A n \in 1..Len(matched_pairs) :
              /\ PairTargets[n] = billing_index[SourceKey0(PairSources[n])]
              /\ \A o \in Elems(billing_data0) :
                    TargetKey0(o) = TargetKey0(PairTargets[n])
                        => o[2] <= PairTargets[n][2]

(* a source paired with the second of two targets carrying its key *)
C3_Witness ==
    /\ pc = "returned"
    /\ \E n \in 1..Len(matched_pairs) :
          /\ PairTargets[n] = TgtId(2)
          /\ TargetKey0(TgtId(1)) = TargetKey0(TgtId(2))
          /\ records0[TgtId(1)] # records0[TgtId(2)]

(* C3 as stated: every pair's target is the first target record carrying
   its key. *)
C3_FirstOccurrenceIndexed ==
    \A n \in 1..Len(matched_pairs) :
        \A o \in Elems(billing_data0) :
            TargetKey0(o) = TargetKey0(PairTargets[n]) => PairTargets[n][2] <= o[2]

(* C4: a target record that is the target side of a pair is not in
   unmatched_billing. *)
C4_PairedNotInUnmatched ==
    Returned =>
        \A n \in 1..Len(matched_pairs) :
            PairTargets[n] \notin Elems(match_results.unmatched_billing)

(* C5: a target record that is the target side of no pair occurs in
   unmatched_billing exactly once. *)
C5_UnpairedInUnmatchedOnce ==
    Returned =>
        \A o \in Elems(billing_data0) :
            o \notin Elems(PairTargets)
                => Occurrences(match_results.unmatched_billing, o) = 1

(* C6: |matched_pairs| + |unmatched_billing| <= |target|. *)
C6_SumAtMostTarget ==
    Returned =>
        Len(match_results.matched_pairs) + Len(match_results.unmatched_billing)
            <= Len(billing_data0)

(* C7 as amended: |matched_pairs| + |unmatched_billing| >= |target|, and the
   sum equals |target| whenever no target record is paired twice, whether or
   not a target key value is duplicated. *)
C7_SumAtLeastTarget ==
    Returned =>
        LET sum == Len(match_results.matched_pairs)
                     + Len(match_results.unmatched_billing)
        IN  /\ sum >= Len(billing_data0)
            /\ ~TargetPairedTwice => sum = Len(billing_data0)

(* a duplicated target key, one of its records paired, the sum = |target| *)
C7_Witness ==
    /\ pc = "returned"
    /\ DuplicatedTargetKey
    /\ ~TargetPairedTwice
    /\ \E n \in 1..Len(matched_pairs) :
          \E o \in Elems(billing_data0) :
              o # PairTargets[n] /\ TargetKey0(o) = TargetKey0(PairTargets[n])
    /\ Len(matched_pairs) + Len(remaining_billing) = Len(billing_data0)

(* C7 as stated: with a duplicated target key value the sum is strictly
   smaller than |target|. *)
C7_DuplicateLowersSum ==
    Returned /\ DuplicatedTargetKey =>
        Len(match_results.matched_pairs) + Len(match_results.unmatched_billing)
            < Len(billing_data0)

(* C8: after a matcher call a source record whose key is null or missing,
   or is carried by no target record, is in unmatched_deposit and in no
   pair; a target record whose key is null or missing is in no pair. *)
C8_NullAndUnknownKeysUnmatched ==
    Returned =>
        /\ \A n \in 1..Len(deposit_data0) :
              SourceKey0(SrcId(n)) \notin TargetKeys0
                  => /\ SrcId(n) \in Elems(unmatched_deposit)
                     /\ SrcId(n) \notin Elems(PairSources)
        /\ \A o \in Elems(billing_data0) :
              TargetKey0(o) = None => o \notin Elems(PairTargets)

(* a null-key source and a missing-key source left unmatched beside a
   null-key target, and a source whose key no target carries *)
C8_Witness ==
    /\ pc = "returned"
    /\ \E a, b, c \in Elems(unmatched_deposit) :
          /\ deposit_key \in DOMAIN records0[a] /\ records0[a][deposit_key] = None
          /\ deposit_key \notin DOMAIN records0[b]
          /\ SourceKey0(c) # None
    /\ \E o \in Elems(remaining_billing) :
          billing_key \in DOMAIN records0[o] /\ records0[o][billing_key] = None

(* C9: matched_pairs and unmatched_deposit list source records in source
   order, and unmatched_billing lists target records in target order. *)
C9_OutputsKeepInputOrder ==
    Returned =>
        /\ StrictlyIncreasing(PairSources)
        /\ StrictlyIncreasing(unmatched_deposit)
        /\ StrictlyIncreasing(remaining_billing)
        /\ Elems(remaining_billing) \subseteq Elems(billing_data0)

(* two unmatched sources around a paired one, and the middle one of three
   targets removed *)
C9_Witness ==
    /\ pc = "returned"
    /\ unmatched_deposit = <<SrcId(1), SrcId(3)>>
    /\ PairSources = <<SrcId(2)>>
    /\ remaining_billing = <<TgtId(1), TgtId(3)>>

(* C10: the two lists passed in and the contents of every record passed in
   stay as they were at entry, through the matcher and through Mode A and
   Mode B; the rows built from matched pairs are new dict objects, and the
   only input objects among the output rows are the unmatched records
   appended as they are. *)
C10_InputsNotModified ==
    /\ lists["deposit_data"] = deposit_data0
    /\ lists["billing_data"] = billing_data0
    /\ \A o \in DOMAIN records0 : records[o] = records0[o]
    /\ (Elems(reconciled) \cup Elems(report_rows)) \cap DOMAIN records0 = {}
    /\ Elems(unreconciled) \cap DOMAIN records0
          = (IF pc = "done" /\ ~validation_rules.given
             THEN Elems(unmatched_deposit) \cup Elems(remaining_billing)
             ELSE {})

(* a finished Mode A run in which the matcher removed a target from its
   pool, one pair was marked invalid_numeric and another was reconciled *)
C10_Witness ==
    /\ pc = "done"
    /\ ~validation_rules.given
    /\ Len(remaining_billing) < Len(billing_data0)
    /\ Len(reconciled) >= 1
    /\ \E n \in 1..Len(matched_pairs) : "validation_error" \in DOMAIN matched_pairs[n]
    /\ \E n \in 1..Len(unreconciled) : unreconciled[n] \in DOMAIN records0

(* C12: for numeric v1, v2 and tolerance_pct, numeric_field_validator
   returns true iff |v1 - v2| <= |v1| * tolerance_pct / 100, the boundary
   included, the allowance taken from the first argument. *)
C12_WithinPercentOfFirst ==
    (call.fn = "numeric_field_validator"
        /\ call.value1.t = "num" /\ call.value2.t = "num")
    => /\ call.outcome.raised = "none"
       /\ call.outcome.value
            <=> Abs(call.value1.v - call.value2.v) * 10000
                    <= Abs(call.value1.v) * call.tolerance.v

(* C13: numeric_field_validator never raises, and returns false when either
   value does not convert to a number, at every tolerance. *)
C13_ValidatorTotal ==
    call.fn = "numeric_field_validator"
    => /\ call.outcome.raised = "none"
       /\ (\E v \in {call.value1, call.value2} :
               v = None \/ (v.t = "str" /\ v.v \notin {"100", "101"}))
            => call.outcome.value = FALSE

(* a call on a non-numeric string and a null returned false *)
C13_Witness ==
    /\ call.fn = "numeric_field_validator"
    /\ call.value1 = Str("abc")
    /\ call.value2 = None
    /\ call.tolerance = Num(1000)
    /\ call.outcome = Returns(FALSE)

(* C14: difference_validator returns true iff |v1 - v2| <= abs_tolerance,
   abs_tolerance being 0.01 when omitted; swapping v1 and v2 gives the same
   result; 1000 vs 1000 passes and 1000 vs 1001 fails at 0.01. *)
C14_AbsoluteDifference ==
    (call.fn = "difference_validator"
        /\ call.value1.t = "num" /\ call.value2.t = "num")
    => LET tol == IF call.tolerance = None THEN 1 ELSE call.tolerance.v
           d == call.value1.v - call.value2.v
       IN  /\ call.outcome.raised = "none"
           /\ call.outcome.value <=> (d \in (0 - tol)..tol)
           /\ call.outcome = difference_validator(call.value2, call.value1, tol)
           /\ (tol = 1 /\ {call.value1.v, call.value2.v} = {100000})
                 => call.outcome.value = TRUE
           /\ (tol = 1 /\ {call.value1.v, call.value2.v} = {100000, 100100})
                 => call.outcome.value = FALSE

(* 1000 vs 1001 with the tolerance omitted returned false *)
C14_Witness ==
    /\ call.fn = "difference_validator"
    /\ call.value1 = Num(100000)
    /\ call.value2 = Num(100100)
    /\ call.tolerance = None
    /\ call.outcome = Returns(FALSE)

----------------------------------------------------------------------------
(* Vocabulary of the pipelines' properties. *)

(* a run that splits the matched pairs in two: the workflow without rules,
   or the graph nodes *)
ModeARun == (pipeline = "workflow" /\ ~validation_rules.given) \/ pipeline = "nodes"

ModeAFinished == ModeARun /\ pc \in {"validated", "done"}

(* the compared value of a record of a pair: 0 when the field is absent *)
Compared(o) == IF "amount" \in DOMAIN records[o] THEN records[o].amount ELSE Num(0)

(* the verdict of the run's validator on two numbers *)
PairPasses(v1, v2) ==
    IF pipeline = "nodes"
    THEN Abs(v1 - v2) <= 1
    ELSE numeric_field_validator(Num(v1), Num(v2), tolerance_pct).value

(* row holds every field of s and of t, with t's value on a shared field *)
IsMergeOf(row, s, t) ==
    /\ DOMAIN s \cup DOMAIN t \subseteq DOMAIN row
    /\ \A f \in DOMAIN t : row[f] = t[f]
    /\ \A f \in DOMAIN s \ DOMAIN t : row[f] = s[f]

(* lst2 is lst with one new dict object appended *)
OneRowAdded(lst, lst2) ==
    /\ Len(lst2) = Len(lst) + 1
    /\ SubSeq(lst2, 1, Len(lst)) = lst
    /\ lst2[Len(lst2)] \notin DOMAIN records

(* C15: in Mode A a matched pair whose two values convert to numbers yields
   exactly one row: on a pass the merged record, target value winning on a
   shared field, in reconciled with no added field; otherwise the merged
   record in unreconciled with difference = v1 - v2. *)
C15_PairStep ==
    (ModeARun /\ p' = p + 1) =>
        LET s == matched_pairs[p + 1].deposit.v
            t == matched_pairs[p + 1].billing.v
            v1 == Compared(s)
            v2 == Compared(t)
        IN  (CanFloat(v1) /\ CanFloat(v2)) =>
              IF PairPasses(Float(v1), Float(v2))
              THEN /\ unreconciled' = unreconciled
                   /\ OneRowAdded(reconciled, reconciled')
                   /\ LET row == records'[reconciled'[Len(reconciled')]]
                      IN  /\ IsMergeOf(row, records[s], records[t])
                          /\ DOMAIN row = DOMAIN records[s] \cup DOMAIN records[t]
              ELSE /\ reconciled' = reconciled
                   /\ OneRowAdded(unreconciled, unreconciled')
                   /\ LET row == records'[unreconciled'[Len(unreconciled')]]
                      IN  /\ IsMergeOf(row, records[s], records[t])
                          /\ DOMAIN row = DOMAIN records[s] \cup DOMAIN records[t]
                                             \cup {"difference"}
                          /\ row.difference = Num(Float(v1) - Float(v2))
C15_ConvertiblePairOneRow == [][C15_PairStep]_vars

(* a finished workflow run with a reconciled row carrying the target's
   amount where the source's differs, and a row with a negative difference *)
C15_Witness ==
    /\ pc = "done"
    /\ pipeline = "workflow"
    /\ ~validation_rules.given
    /\ \E n \in 1..Len(reconciled) :
          /\ "amount" \in DOMAIN records[reconciled[n]]
          /\ records[reconciled[n]].amount = Str("100")
    /\ \E n \in 1..Len(unreconciled) :
          /\ "difference" \in DOMAIN records[unreconciled[n]]
          /\ records[unreconciled[n]].difference = Num(-100)

(* C16: in Mode A a pair with a value that fails numeric conversion goes to
   unreconciled as a row whose fields are exactly the source fields united
   with the target fields, target overwriting, plus validation_error =
   invalid_numeric. *)
C16_InvalidStep ==
    (pipeline = "workflow" /\ ~validation_rules.given /\ p' = p + 1) =>
        LET s == matched_pairs[p + 1].deposit.v
            t == matched_pairs[p + 1].billing.v
        IN  ~(CanFloat(Compared(s)) /\ CanFloat(Compared(t))) =>
              /\ reconciled' = reconciled
              /\ OneRowAdded(unreconciled, unreconciled')
              /\ LET row == records'[unreconciled'[Len(unreconciled')]]
                 IN  /\ IsMergeOf(row, records[s], records[t])
                     /\ DOMAIN row = DOMAIN records[s] \cup DOMAIN records[t]
                                        \cup {"validation_error"}
                     /\ row.validation_error = Str("invalid_numeric")
C16_InvalidPairRow == [][C16_InvalidStep]_vars

(* C17: in Mode A the unmatched source records and then the unmatched
   target records are the last rows of unreconciled, after every row made
   from a matched pair, as the objects they were at entry, with no
   difference or validation_error field added; none of them is in
   reconciled. *)
C17_UnmatchedAppendedAsIs ==
    ModeAFinished =>
        LET unmatched == unmatched_deposit \o remaining_billing
            k == Len(unreconciled) - Len(unmatched)
        IN  /\ k >= 0
            /\ SubSeq(unreconciled, k + 1, Len(unreconciled)) = unmatched
            /\ \A n \in 1..k : unreconciled[n] \notin DOMAIN records0
            /\ \A o \in Elems(unmatched) :
                  /\ records[o] = records0[o]
                  /\ DOMAIN records[o] \cap {"difference", "validation_error"} = {}
                  /\ o \notin Elems(reconciled)

(* a finished run with a row made from a pair followed by an unmatched
   source record and an unmatched target record *)
C17_Witness ==
    /\ ModeAFinished
    /\ Len(unreconciled) = 3
    /\ unreconciled[1] \notin DOMAIN records0
    /\ unreconciled[2] \in Elems(deposit_data0)
    /\ unreconciled[3] \in Elems(billing_data0)
    /\ unmatched_deposit = <<unreconciled[2]>>
    /\ remaining_billing = <<unreconciled[3]>>

(* the compared field of a record is a non-numeric string, null or absent *)
DataError(o) ==
    \/ "amount" \notin DOMAIN records0[o]
    \/ ~CanFloat(records0[o].amount)

(* C18: no run raises while classifying matched pairs, whatever the
   compared field holds, and in a finished Mode A run every pair with a
   non-numeric, null or absent compared value is a row of unreconciled, so
   reconciled holds at most the pairs without such a value. *)
C18_DataErrorsNeverFatal ==
    /\ ~(pc = "raised" /\ matched_pairs # <<>>)
    /\ ModeAFinished =>
          Len(reconciled)
              <= Cardinality({n \in 1..Len(matched_pairs) :
                                ~DataError(PairSources[n]) /\ ~DataError(PairTargets[n])})

(* the rows of the end-to-end scenario *)
ScenarioRun ==
    /\ pipeline = "nodes"
    /\ Contents(deposit_data0) = ScenarioSource
    /\ Contents(billing_data0) = ScenarioTarget

(* C19: on the end-to-end scenario reconciled is exactly the INV-001 row,
   and unreconciled is exactly three rows: INV-002 with difference -1, the
   unmatched source INV-003 and the unmatched target INV-004. *)
C19_ScenarioSplit ==
    (ScenarioRun /\ pc \in {"validated", "done"}) =>
        /\ Contents(reconciled)
              = <<[invoice_number |-> Str("INV-001"), amount |-> Num(100000)]>>
        /\ Contents(unreconciled)
              = <<[invoice_number |-> Str("INV-002"), amount |-> Num(150100),
                   difference |-> Num(-100)],
                  [invoice_number |-> Str("INV-003"), amount |-> Num(50000)],
                  [invoice_number |-> Str("INV-004"), amount |-> Num(80000)]>>
        /\ pc = "done" =>
              /\ files[reconciled_path] = Contents(reconciled)
              /\ files[unreconciled_path] = Contents(unreconciled)

(* the scenario run to its end, both files written *)
C19_Witness ==
    /\ ScenarioRun
    /\ pc = "done"
    /\ Len(reconciled) = 1
    /\ Len(unreconciled) = 3
    /\ DOMAIN files = {reconciled_path, unreconciled_path}

(* the rules of the run that fail on the pair of records s and t *)
FailingRules(s, t) ==
    {j \in 1..Len(validation_rules.rules) :
        LET rule == validation_rules.rules[j]
        IN  RuleMismatch(rule, FieldGet(records[s], RuleSrcField(rule)),
                         FieldGet(records[t], RuleTgtField(rule)))}

(* the m-th smallest element of a set of numbers *)
NthOf(S, m) == CHOOSE j \in S : Cardinality({h \in S : h < j}) = m - 1

(* C20: in Mode B each matched pair adds to the report, after the rows of
   the pairs before it, exactly one row per rule that fails on it, in rule
   order, and none for a rule that passes; a row carries the pair's
   source-key value, the field name, the source value, the target value and
   the rule's severity. *)
C20_ReportStep ==
    (pipeline = "workflow" /\ validation_rules.given /\ p' = p + 1) =>
        LET s == matched_pairs[p + 1].deposit.v
            t == matched_pairs[p + 1].billing.v
            failing == FailingRules(s, t)
            old == Len(report_rows)
        IN  /\ Len(report_rows') = old + Cardinality(failing)
            /\ SubSeq(report_rows', 1, old) = report_rows
            /\ \A m \in 1..Cardinality(failing) :
                  LET rule == validation_rules.rules[NthOf(failing, m)]
                      field == IF "source_field" \in DOMAIN rule
                               THEN rule.source_field ELSE rule.field
                      tfield == IF "target_field" \in DOMAIN rule
                                THEN rule.target_field ELSE field
                      row == records'[report_rows'[old + m]]
                  IN  /\ report_rows'[old + m] \notin DOMAIN records
                      /\ DOMAIN row = {source_key, "field", "master_value",
                                       "list_value", "severity"}
                      /\ row[source_key] = Get(records[s], source_key)
                      /\ row.field = field
                      /\ row.master_value = Get(records[s], field.v)
                      /\ row.list_value = Get(records[t], tfield.v)
                      /\ row.severity = IF "severity" \in DOMAIN rule
                                        THEN rule.severity ELSE Str("Error")
C20_OneRowPerFailingRule == [][C20_ReportStep]_vars

(* a finished Mode B run of two rules on two pairs: both rules failed on
   the first pair, only the second rule on the second pair *)
C20_Witness ==
    /\ pc = "done"
    /\ validation_rules = RulesGiven(<<AmountRule, DeptRule>>)
    /\ Len(matched_pairs) = 2
    /\ Len(report_rows) = 3
    /\ records[report_rows[1]].field = Str("amount")
    /\ records[report_rows[2]].field = Str("department_code")
    /\ records[report_rows[3]].field = Str("department_code")
    /\ files[report_path] = Contents(report_rows)

----------------------------------------------------------------------------
(* Mode B: values that do not convert *)

(* the numeric rules of the run for which the source or the target value of
   the pair of records s and t does not convert to a number *)
UnconvertibleRules(s, t) ==
    {j \in 1..Len(validation_rules.rules) :
        LET rule == validation_rules.rules[j]
        IN  /\ Get(rule, "validator") = Str("numeric")
            /\ \/ ~CanFloat(Get(records[s], rule.field.v))
               \/ ~CanFloat(Get(records[t], rule.field.v))}

(* C21: in Mode B no step raises, and the step of a matched pair adds, for
   each numeric rule whose source or target value is text that is no
   number, null or absent, a report row with the rule's field and the two
   values as read; the pair is not skipped. *)
C21_UnconvertibleStep ==
    (pipeline = "workflow" /\ validation_rules.given /\ pc = "returned") =>
        /\ pc' # "raised"
        /\ exception' = "none"
        /\ p < Len(matched_pairs) =>
              /\ p' = p + 1
              /\ LET s == matched_pairs[p + 1].deposit.v
                     t == matched_pairs[p + 1].billing.v
                 IN  \A j \in UnconvertibleRules(s, t) :
                        LET rule == validation_rules.rules[j]
                        IN  \E n \in (Len(report_rows) + 1)..Len(report_rows') :
                               LET row == records'[report_rows'[n]]
                               IN  /\ row.field = rule.field
                                   /\ row[source_key] = Get(records[s], source_key)
                                   /\ row.master_value = Get(records[s], rule.field.v)
                                   /\ row.list_value = Get(records[t], rule.field.v)
C21_UnconvertibleIsMismatch == [][C21_UnconvertibleStep]_vars

(* a finished Mode B run that met an absent amount on one pair and text that
   is no number on the other, against a target without the field: two
   amount rows *)
C21_Witness ==
    /\ pc = "done"
    /\ pipeline = "workflow"
    /\ validation_rules = RulesGiven(<<AmountRule, DeptRule>>)
    /\ Len(matched_pairs) = 2
    /\ \E m, n \in 1..Len(report_rows) :
          /\ records[report_rows[m]].field = Str("amount")
          /\ records[report_rows[m]].master_value = Str("abc")
          /\ records[report_rows[n]].field = Str("amount")
          /\ records[report_rows[n]].master_value = None
          /\ "amount" \notin DOMAIN records[matched_pairs[1].deposit.v]
          /\ records[matched_pairs[2].deposit.v].amount = Str("abc")
          /\ "amount" \notin DOMAIN records[matched_pairs[1].billing.v]

(* a Mode B run of the workflow, after the matcher *)
ModeBRun ==
    pipeline = "workflow" /\ validation_rules.given /\ pc \in {"returned", "done"}

(* C22: in Mode B every report row is a new record that carries the
   source-key value of a matched pair already visited and of no unmatched
   source record; no record of unmatched_source or unmatched_target is a
   report row; with no matched pairs the report is empty; the file written
   holds exactly the report rows. *)
C22_ReportOfMatchedPairsOnly ==
    ModeBRun =>
        /\ \A n \in 1..Len(report_rows) :
              LET row == records[report_rows[n]]
              IN  /\ report_rows[n] \notin DOMAIN records0
                  /\ \E m \in 1..p : row[source_key] = SourceKey0(PairSources[m])
                  /\ \A o \in Elems(unmatched_deposit) :
                        row[source_key] # SourceKey0(o)
        /\ Len(matched_pairs) = 0 => report_rows = <<>>
        /\ pc = "done" =>
              /\ DOMAIN files = {report_path}
              /\ files[report_path] = Contents(report_rows)

(* a finished Mode B run with a report row, an unmatched source record and
   an unmatched target record *)
C22_Witness ==
    /\ ModeBRun
    /\ pc = "done"
    /\ Len(report_rows) > 0
    /\ Len(unmatched_deposit) > 0
    /\ Len(match_results.unmatched_billing) > 0

(* C24: the mode is chosen only by whether a rule list is supplied.
   Without one the run writes no report row and returns a mapping with
   exactly the keys reconciled and unreconciled, having written those two
   files and no report; with a rule list, the empty one included, it puts
   nothing in reconciled or unreconciled and returns a mapping with exactly
   the key report, having written the report file and neither of the two
   others. *)
C24_ModesExclusive ==
    (pipeline = "workflow" /\ pc \in {"returned", "done"}) =>
        IF validation_rules.given
        THEN /\ reconciled = <<>> /\ unreconciled = <<>>
             /\ pc = "done" =>
                   /\ DOMAIN workflow_result = {"report"}
                   /\ workflow_result.report = report_path
                   /\ DOMAIN files = {report_path}
        ELSE /\ report_rows = <<>>
             /\ pc = "done" =>
                   /\ DOMAIN workflow_result = {"reconciled", "unreconciled"}
                   /\ workflow_result.reconciled = reconciled_path
                   /\ workflow_result.unreconciled = unreconciled_path
                   /\ DOMAIN files = {reconciled_path, unreconciled_path}

(* a finished run with the empty rule list on a matched pair and an
   unmatched record: an empty report and nothing else *)
C24_Witness ==
    /\ pipeline = "workflow"
    /\ pc = "done"
    /\ validation_rules = RulesGiven(<<>>)
    /\ Len(matched_pairs) > 0
    /\ Len(unmatched_deposit) > 0
    /\ files = (report_path :> <<>>)

----------------------------------------------------------------------------
(* Mode A: the accounting of the records *)

(* the number of rows of the two outputs that stand for the source record
   o: o itself, or the row made for a pair whose source is o (the m-th
   pair made the m-th new row) *)
Representations(o) ==
    Occurrences(reconciled, o) + Occurrences(unreconciled, o)
      + Cardinality({m \in 1..Len(matched_pairs) :
            /\ PairSources[m] = o
            /\ In(RowId(m), reconciled) \/ In(RowId(m), unreconciled)})

(* C29: when a Mode A split has finished, reconciled and unreconciled hold
   together as many rows as there are matched pairs, unmatched source
   records and unmatched target records; the row of each matched pair is in
   exactly one of the two outputs, once; every source record is represented
   by exactly one row of the two outputs. *)
C29_EveryRecordOnce ==
    ModeAFinished =>
        /\ Len(reconciled) + Len(unreconciled)
              = Len(matched_pairs) + Len(unmatched_deposit)
                  + Len(match_results.unmatched_billing)
        /\ \A m \in 1..Len(matched_pairs) :
              /\ Occurrences(reconciled, RowId(m)) + Occurrences(unreconciled, RowId(m)) = 1
              /\ IsMergeOf(records[RowId(m)], records0[PairSources[m]],
                           records0[PairTargets[m]])
        /\ \A o \in Elems(deposit_data0) : Representations(o) = 1

(* a finished split of two matched pairs, one of them reconciled, an
   unmatched source record and an unmatched target record *)
C29_Witness ==
    /\ ModeAFinished
    /\ Len(matched_pairs) = 2
    /\ Len(reconciled) = 1
    /\ Len(unmatched_deposit) > 0
    /\ Len(match_results.unmatched_billing) > 0

(* the compared field is present in the record o and holds a null or text
   that is no number *)
PresentInvalid(o) == "amount" \in DOMAIN records[o] /\ ~CanFloat(records[o].amount)

(* C30: in a Mode A split the step of a matched pair never raises; an absent
   compared field counts as 0 and the pair's row carries no
   validation_error for it, whereas a pair with a present null or
   non-numeric value gets a row of unreconciled marked with a
   validation_error (invalid_numeric in the workflow, invalid_amount in the
   graph node); a pair in which both sides lack the field is a row of
   reconciled at every tolerance. *)
C30_Step ==
    (ModeARun /\ pc = "returned" /\ p < Len(matched_pairs)) =>
        LET s == matched_pairs[p + 1].deposit.v
            t == matched_pairs[p + 1].billing.v
        IN  /\ pc' # "raised"
            /\ p' = p + 1
            /\ IF PresentInvalid(s) \/ PresentInvalid(t)
               THEN /\ OneRowAdded(unreconciled, unreconciled')
                    /\ reconciled' = reconciled
                    /\ Get(records'[unreconciled'[Len(unreconciled')]], "validation_error")
                          = (IF pipeline = "workflow" THEN Str("invalid_numeric")
                             ELSE Str("invalid_amount"))
               ELSE /\ \A o \in DOMAIN records' \ DOMAIN records :
                          "validation_error" \notin DOMAIN records'[o]
                    /\ ("amount" \notin DOMAIN records[s]
                           /\ "amount" \notin DOMAIN records[t]) =>
                          /\ OneRowAdded(reconciled, reconciled')
                          /\ unreconciled' = unreconciled
C30_AbsentIsZero == [][C30_Step]_vars

----------------------------------------------------------------------------
(* the HR scenario *)

(* the run was given the master row of employee 1001 and the list row of
   employee 1001 *)
HrScenario ==
    /\ Contents(deposit_data0) = <<MasterRow>>
    /\ Contents(billing_data0) = <<ListRow>>

(* the report rows are the two of the scenario, the key value being key *)
HrScenarioReport(key) ==
    /\ Len(report_rows) = 2
    /\ records[report_rows[1]] =
          [employee_id |-> key, field |-> Str("department_code"),
           master_value |-> Str("D01"), list_value |-> Str("D02"),
           severity |-> Str("Warning")]
    /\ records[report_rows[2]] =
          [employee_id |-> key, field |-> Str("title_code"),
           master_value |-> Str("T03"), list_value |-> Str("T05"),
           severity |-> Str("Error")]
    /\ \E path \in DOMAIN files : files[path] = Contents(report_rows)

(* C23: the master row {employee_id 1001, department_code D01, title_code
   T03} matched on employee_id / emp_id with the list row {emp_id 1001,
   dept D02, title_code T05} under the rules department_code vs dept
   (Warning) and title_code (Error) yields a report of exactly two rows:
   department_code / Warning, then title_code / Error; so does the node
   _validate_hr on the two rows. *)
C23_HrScenarioTwoRows ==
    HrScenario =>
        /\ (pipeline = "workflow" /\ validation_rules.given /\ pc = "done") =>
              HrScenarioReport(PyInt(1001))
        /\ (pipeline = "hr" /\ sub = "returned") => HrScenarioReport(Str("1001"))

(* the workflow has finished on the scenario with the two rules *)
C23_Witness ==
    /\ HrScenario
    /\ pipeline = "workflow"
    /\ validation_rules = RulesGiven(<<DeptRule, TitleRule>>)
    /\ source_key = "employee_id"
    /\ target_key = "emp_id"
    /\ pc = "done"
    /\ Len(matched_pairs) = 1
    /\ Len(report_rows) = 2

----------------------------------------------------------------------------
(* the agents and the graphs *)

StateParams == GetDefault(state, "agent_parameters", <<>>)
StateInputFiles == GetDefault(state, "input_files", <<>>)

(* a place the agent's nodes look in holds a source file reference; the
   same for the target *)
SourceResolvable ==
    \/ Truthy(Get(StateParams, "source_file"))
    \/ agent = "inventory_matching_agent" /\ Truthy(Get(StateInputFiles, "inventory_count"))
    \/ Truthy(Get(StateInputFiles, "deposit"))
TargetResolvable ==
    \/ Truthy(Get(StateParams, "target_file"))
    \/ agent = "inventory_matching_agent" /\ Truthy(Get(StateInputFiles, "inventory_master"))
    \/ Truthy(Get(StateInputFiles, "billing"))

(* C25: when the source or the target file reference cannot be resolved
   from agent_parameters or input_files, the node ensure_files or
   run_matching of the receivables and of the inventory agent, whichever
   runs, raises RuntimeError (its message names the missing files) before
   anything is read, matched or written; and every call of the workflow
   carries a source and a target file reference. *)
C25_Step ==
    /\ (/\ agent \in {"receivables_reconciliation_agent", "inventory_matching_agent"}
        /\ sub \in {"ensure_files", "run_matching"}
        /\ pipeline # "workflow"
        /\ ~(SourceResolvable /\ TargetResolvable)) =>
          /\ exception' = "RuntimeError"
          /\ sub' = "raised"
          /\ UNCHANGED <<pc, records, lists, matcherVars, workflowVars,
                         workflow_calls, pipeline>>
    /\ workflow_calls' # workflow_calls =>
          /\ Len(workflow_calls') = Len(workflow_calls) + 1
          /\ Truthy(workflow_calls'[Len(workflow_calls')].source_file)
          /\ Truthy(workflow_calls'[Len(workflow_calls')].target_file)
C25_MissingFileRaisesFirst == [][C25_Step]_vars

(* the inventory agent's planner ran run_matching first on a state with a
   source but no target file: the node raised and the workflow was not
   called *)
C25_Witness ==
    /\ agent = "inventory_matching_agent"
    /\ sub = "raised"
    /\ exception = "RuntimeError"
    /\ SourceResolvable
    /\ ~TargetResolvable
    /\ GetDefault(state, "_executed_tools", <<>>) = <<>>
    /\ GetDefault(state, "plan_next", "") = "run_matching"
    /\ workflow_calls = <<>>
    /\ pc = "start"
    /\ files = <<>>

(* C26: a run of the supervisor graph does not stop on the graph's
   superstep limit; the routing does not dispatch to an agent once an agent
   has returned with plan_next = "__end__"; and when the run is at END,
   plan_next is "__end__" and final_output_paths is not empty. *)
C26_RunEndsWithoutRedispatch ==
    /\ ~(node = "raised" /\ exception = "GraphRecursionError")
    /\ (node = "agent" /\ sub = "none") => GetDefault(state, "plan_next", "") # "__end__"
    /\ node = "__end__" =>
          /\ GetDefault(state, "plan_next", "") = "__end__"
          /\ GetDefault(state, "final_output_paths", <<>>) # <<>>

(* the state of a call supplies two input files *)
TwoInputFiles ==
    /\ Cardinality(DOMAIN StateInputFiles) = 2
    /\ \A k \in DOMAIN StateInputFiles : Truthy(StateInputFiles[k])

(* C27: a call of a specialist agent's function on a state that supplies
   two input files, under deposit / billing or under other keys, does not
   raise, and when it has returned plan_next is "__end__" and, for the
   receivables agent, final_output_paths is not empty. *)
C27_AgentCallCompletes ==
    (agent \in Agents /\ node \in {"none", "returned"} /\ TwoInputFiles) =>
        /\ sub # "raised"
        /\ node = "returned" =>
              /\ GetDefault(state, "plan_next", "") = "__end__"
              /\ agent = "receivables_reconciliation_agent" =>
                    GetDefault(state, "final_output_paths", <<>>) # <<>>

(* C28: a call of the supervisor's planner on a state whose plan_next is
   "__end__" leaves the state as it is; on any other state it does not
   raise and leaves next_agent, one of the three specialist agents,
   plan_next equal to it, and agent_parameters; without an LLM these are
   the receivables agent and the files under deposit and billing. *)
C28_Step ==
    (node \in {"planner", "call"} /\ sub = "none") =>
        IF GetDefault(state, "plan_next", "") = "__end__"
        THEN state' = state /\ exception' = exception
        ELSE /\ node' # "raised"
             /\ exception' = exception
             /\ {"next_agent", "plan_next", "agent_parameters"} \subseteq DOMAIN state'
             /\ state'["next_agent"] \in Agents
             /\ state'["plan_next"] = state'["next_agent"]
             /\ ~llm =>
                   /\ state'["next_agent"] = "receivables_reconciliation_agent"
                   /\ Get(state'["agent_parameters"], "source_file")
                         = Get(StateInputFiles, "deposit")
                   /\ Get(state'["agent_parameters"], "target_file")
                         = Get(StateInputFiles, "billing")
C28_PlannerAlwaysDecides == [][C28_Step]_vars

====
